---- MODULE Spec2Model ----
(***************************************************************************)
(* Verification model of the dev-plugin observability hooks:               *)
(*   - langfuse-transcript-sync.py : incremental transcript -> turn traces *)
(*   - observability-tracker-unified.py : per-event span tracker           *)
(*   - observability-tracker.py : session record in current-session.json  *)
(*   - config.py : tiered configuration loading                            *)
(*                                                                         *)
(* The specifications share the module's variables; the main ones:         *)
(*   Spec        sequential invocations of the transcript sync (main) on   *)
(*               one growing session log                                   *)
(*   SpecRace    two transcript-sync processes racing on the same log and  *)
(*               the same state file, step by step                         *)
(*   SpecTracker one ObservabilityTracker instance handling hook events    *)
(*   SpecHooks   every hook event handled by a fresh process (main of the  *)
(*               unified tracker)                                          *)
(***************************************************************************)
EXTENDS Integers, Sequences, FiniteSets, TLC

\* ---------------------------------------------------------------- bounds
MaxLog == 4
MaxAbort == 2
MaxEvents == 4

\* ------------------------------------------------------------ log lines
\* One transcript line. k is what json.loads and the role test make of it:
\*   "user"    a user-role object whose content is a text
\*   "result"  a user-role object whose content list holds a tool_result block
\*   "asst"    an assistant-role object; mid is message.id (0: no id),
\*             c its content list
\*   "other"   an object whose type/role is neither user nor assistant
\*   "bad"     not valid JSON (json.loads raises JSONDecodeError)
\*   "nonobj"  valid JSON that is not an object (msg.get raises AttributeError)
\* A content block is [t |-> type, x |-> text or tool id, n |-> tool name].
\* agent is toolUseResult.agentId of the line (NoAgent: no such entry).
NoAgent == "none"
TextBlock(s) == [t |-> "text", x |-> s, n |-> "none"]
ToolUseBlock(id, name) == [t |-> "tool_use", x |-> id, n |-> name]
ToolResultBlock(id) == [t |-> "tool_result", x |-> id, n |-> "none"]

UserLine ==
    [k |-> "user", mid |-> 0, c |-> <<TextBlock("q")>>, agent |-> NoAgent]
ResultLine ==
    [k |-> "result", mid |-> 0, c |-> <<ToolResultBlock("t1")>>,
     agent |-> NoAgent]
AsstTool1 ==
    [k |-> "asst", mid |-> 1, c |-> <<ToolUseBlock("t1", "Edit")>>,
     agent |-> NoAgent]
AsstText2 ==
    [k |-> "asst", mid |-> 2, c |-> <<TextBlock("done")>>, agent |-> NoAgent]
AsstNoId ==
    [k |-> "asst", mid |-> 0, c |-> <<TextBlock("b")>>, agent |-> NoAgent]
OtherLine == [k |-> "other", mid |-> 0, c |-> <<>>, agent |-> NoAgent]
BadLine == [k |-> "bad", mid |-> 0, c |-> <<>>, agent |-> NoAgent]
NonObjLine == [k |-> "nonobj", mid |-> 0, c |-> <<>>, agent |-> NoAgent]

\* The lines of a session that spawns the sub-execution "a1" through the Task
\* tool call "t2", and the lines of the sub-execution's own log.
AsstTask ==
    [k |-> "asst", mid |-> 3, c |-> <<ToolUseBlock("t2", "Task")>>,
     agent |-> NoAgent]
TaskResult ==
    [k |-> "result", mid |-> 0, c |-> <<ToolResultBlock("t2")>>,
     agent |-> "a1"]
SubUse ==
    [k |-> "asst", mid |-> 4, c |-> <<ToolUseBlock("s1", "Read")>>,
     agent |-> NoAgent]
SubResult ==
    [k |-> "result", mid |-> 0, c |-> <<ToolResultBlock("s1")>>,
     agent |-> NoAgent]

Lines == {UserLine, ResultLine, AsstTool1, AsstText2, AsstNoId,
          OtherLine, BadLine, NonObjLine}

\* The output recorded for a tool_result block (item.get("content")).
ResultContent(id) == <<id>>
NoOutput == <<>>

\* ------------------------------------------------------------- variables
VARIABLES
    log,        \* the primary session log: the lines appended so far
    sublog,     \* subagents/agent-a1.jsonl: whether it exists, and its lines
    stateFile,  \* langfuse_state.json on disk
    calls,      \* history: the create_trace calls made, in order
    op,         \* history: the last step taken and what it returned
    aborts,     \* number of passes an exception ended after they read lines
    consumed,   \* history: for each line of the log, the sequential passes that parsed it
    pc,         \* SpecRace: each process's position in main
    mem,        \* SpecRace: each process's in-memory state dict
    tracker,    \* the ObservabilityTracker instance: active_spans, session_metrics
    spans,      \* the spans the Langfuse backend holds, in creation order
    now,        \* the clock (datetime.now()), one tick per hook event
    last,       \* history: the last hook event handled and what it met
    sessionFile, \* observability-tracker.py: current-session.json on disk
    archive,    \* observability-tracker.py: the files of sessions/, in order
    fop,        \* history: the last run of observability-tracker.py
    dir,        \* ~/.claude/projects: whether it exists, and its *.jsonl files
    located,    \* history: what find_latest_transcript returned last
    fpc,        \* SpecHookRace: each hook process's position in track_tool_usage
    fmem,       \* SpecHookRace: each hook process's session_data and run count
    cfgFiles,   \* config.py: the four configuration files on disk
    config      \* history: what load_config returned last

syncVars == <<log, sublog, stateFile, calls, op, aborts, consumed>>
raceVars == <<pc, mem>>
trackerVars == <<tracker, spans, now, last>>
fileVars == <<sessionFile, archive, fop>>
dirVars == <<dir, located>>
hookVars == <<fpc, fmem>>
cfgVars == <<cfgFiles, config>>
vars ==
    <<log, sublog, stateFile, calls, op, aborts, consumed, pc, mem, tracker, spans, now,
      last, sessionFile, archive, fop, dir, located, fpc, fmem, cfgFiles,
      config>>

\* ------------------------------------------------------------ state file
\* The state dict of load_state / save_state, restricted to the entry of the
\* session: has is "session_id in state"; the "updated" timestamp is not modelled.
\* sub_has / sub_last_line are the entry "<session_id>/agent-a1" of the
\* sub-execution (its tool_count is not modelled).
EmptyState ==
    [has |-> FALSE, last_line |-> 0, turn_count |-> 0,
     sub_has |-> FALSE, sub_last_line |-> 0]

\* The file on disk: absent, a complete JSON document, a truncated/partly
\* written one (what Path.write_text leaves between open("w") and close), or
\* bytes that are not text in the file encoding.
AbsentFile == [kind |-> "absent", doc |-> EmptyState]
PartialFile == [kind |-> "partial", doc |-> EmptyState]
UndecodableFile == [kind |-> "undecodable", doc |-> EmptyState]
DocFile(st) == [kind |-> "doc", doc |-> st]

\* load_state: {} when the file is absent or json.loads raises
\* JSONDecodeError. read_text raises UnicodeDecodeError on bytes that are no
\* text; the except clause names JSONDecodeError and IOError only.
load_state_raises(f) == f.kind = "undecodable"
load_state(f) == IF f.kind = "doc" THEN f.doc ELSE EmptyState

\* session_state.get("last_line", 0) of state.get(session_id, {})
GetLastLine_Zero(st) == 0
GetLastLine(st) == IF st.has THEN st.last_line ELSE 0

\* session_state.get("turn_count", 0)
GetTurnCount(st) == IF st.has THEN st.turn_count ELSE 0

\* state[session_id] = {"last_line": total_lines, "turn_count": ...}
UpdateState_Delta(st, total_lines, turn_count) ==
    [st EXCEPT !.has = TRUE,
               !.last_line = total_lines - GetLastLine(st),
               !.turn_count = turn_count - GetTurnCount(st)]
UpdateState(st, total_lines, turn_count) ==
    [st EXCEPT !.has = TRUE, !.last_line = total_lines,
               !.turn_count = turn_count]

\* state["<session_id>/agent-a1"] = {"last_line": total_lines, ...}
UpdateSubState(st, total_lines) ==
    [st EXCEPT !.sub_has = TRUE, !.sub_last_line = total_lines]

\* ------------------------------------------------------- message parsing
RECURSIVE Flatten(_)
Flatten(ss) == IF ss = <<>> THEN <<>> ELSE Head(ss) \o Flatten(Tail(ss))

IsTextBlock(b) == b.t = "text"
IsToolUse(b) == b.t = "tool_use"
IsToolResultBlock_ToolUse(b) == b.t = "tool_use"
IsToolResultBlock(b) == b.t = "tool_result"

\* is_tool_result: some block of the content list has type tool_result
is_tool_result_Never(msg) == FALSE
is_tool_result(msg) == \E i \in 1..Len(msg.c) : IsToolResultBlock(msg.c[i])

\* get_tool_calls: the tool_use blocks of the content, in order
get_tool_calls(c) == SelectSeq(c, IsToolUse)

\* get_text_content: the texts of the text blocks, in order (joined by "\n")
get_text_content(c) ==
    LET tb == SelectSeq(c, IsTextBlock) IN [i \in 1..Len(tb) |-> tb[i].x]

\* merge_assistant_parts: the parts' content lists concatenated, under the
\* structure (message id) of the first part
merge_assistant_parts(parts) ==
    [mid |-> parts[1].mid, c |-> Flatten([i \in 1..Len(parts) |-> parts[i].c])]

\* The item of one tool-result message that matches tool_id: the first block
\* whose tool_use_id is tool_id (the inner loop breaks at it). Only tool_result
\* blocks carry a tool_use_id.
MatchIn(c, tool_id) ==
    LET hits == {i \in 1..Len(c) : c[i].t = "tool_result" /\ c[i].x = tool_id}
    IN IF hits = {} THEN NoOutput ELSE ResultContent(tool_id)

\* create_trace, lines 264-272: every message of tool_results is scanned, so
\* the last message holding a match decides the output.
RECURSIVE ToolOutput(_, _, _)
ToolOutput(results, tool_id, acc) ==
    IF results = <<>> THEN acc
    ELSE LET m == MatchIn(Head(results), tool_id)
         IN ToolOutput(Tail(results), tool_id, IF m = NoOutput THEN acc ELSE m)

\* subagent_data of main (line 656) for the one agent "a1": has is
\* "a1 in subagent_data", tools the list process_subagent_transcript returned.
NoSubagents == [has |-> FALSE, tools |-> <<>>]

\* lines 316-332: the spans nested under a Task tool call that
\* subagent_tools_map links to the sub-execution
NestedSpans_AnyTask(tool_call, submap, subagent_data) ==
    IF tool_call.n = "Task" /\ subagent_data.has
    THEN [has |-> TRUE, tools |-> subagent_data.tools]
    ELSE NoSubagents
NestedSpans_Early(tool_call, submap, subagent_data) ==
    IF tool_call.n = "Task" /\ tool_call.x \in submap
    THEN [has |-> TRUE, tools |-> <<>>]
    ELSE NoSubagents
NestedSpans(tool_call, submap, subagent_data) ==
    IF tool_call.n = "Task" /\ tool_call.x \in submap
    THEN [has |-> TRUE, tools |-> subagent_data.tools]
    ELSE NoSubagents

\* create_trace: what is sent for one turn. uidx (the line index of the user
\* message) identifies the user input; ok tells whether the push succeeded.
\* A tool span carries input, output and the metadata tool_name and tool_id
\* (lines 307-313, 335): orphan, the flag of a span without result, is set
\* nowhere.
create_trace(turn_num, uidx, user_msg, assistant_msgs, tool_results, submap, subagent_data, ok) ==
    LET uses == Flatten([i \in 1..Len(assistant_msgs) |->
                            get_tool_calls(assistant_msgs[i].c)])
    IN [num |-> turn_num,
        uidx |-> uidx,
        input |-> get_text_content(user_msg.c),
        output |-> get_text_content(assistant_msgs[Len(assistant_msgs)].c),
        assts |-> [i \in 1..Len(assistant_msgs) |-> assistant_msgs[i].c],
        spans |-> [i \in 1..Len(uses) |->
                      [id |-> uses[i].x,
                       output |-> ToolOutput(tool_results, uses[i].x, NoOutput),
                       orphan |-> FALSE,
                       nested |-> NestedSpans(uses[i], submap, subagent_data)]],
        ok |-> ok]

\* ------------------------------------------------------ turn aggregation
\* The locals of process_transcript's grouping loop (lines 385-390), with
\*   user    the line index of current_user (0: None)
\*   out     the create_trace calls made so far in this pass
\*   status  "run", or how the loop ended early: "emitfail" (create_trace
\*           raised), "crash" (msg.get raised on a non-object line)
\*   submap  the tool ids subagent_tools_map links to the sub-execution
InitAgg ==
    [user |-> 0, assistants |-> <<>>, parts |-> <<>>, mid |-> 0,
     results |-> <<>>, turns |-> 0, out |-> <<>>, status |-> "run",
     submap |-> {}]

\* lines 421-425 / 452-454 / 461-463: the pending parts become one response
FinalizeParts(ag) ==
    IF ag.mid # 0 /\ ag.parts # <<>>
    THEN Append(ag.assistants, merge_assistant_parts(ag.parts))
    ELSE ag.assistants

\* lines 427-430 / 465-468: the turn is emitted when it has a user message and
\* at least one merged response. failAt = k makes the k-th create_trace call
\* of the pass raise.
EmitTurn(ag, assistants, all, turn_count, failAt, subagent_data) ==
    IF ag.user # 0 /\ assistants # <<>>
    THEN LET n == ag.turns + 1
             ok == failAt # n
             call == create_trace(turn_count + n, ag.user, all[ag.user],
                                  assistants, ag.results, ag.submap,
                                  subagent_data, ok)
         IN [ag EXCEPT !.turns = n,
                       !.out = Append(ag.out, call),
                       !.status = IF ok THEN "run" ELSE "emitfail"]
    ELSE ag

\* One iteration of "for msg in new_messages" (lines 392-458); i is the line
\* index of msg in the file.
\* lines 402-415: the tool ids a tool-result message links to the agent its
\* toolUseResult names, when subagent_data holds that agent
LinkedTools(msg, subagent_data) ==
    IF msg.agent # NoAgent /\ subagent_data.has
    THEN {msg.c[j].x : j \in {m \in 1..Len(msg.c) : IsToolResultBlock(msg.c[m])}}
    ELSE {}

StepMsg(ag, all, i, turn_count, failAt, subagent_data) ==
    LET msg == all[i] IN
    IF msg.k = "nonobj" THEN [ag EXCEPT !.status = "crash"]
    ELSE IF msg.k \in {"user", "result"}
    THEN IF is_tool_result(msg)
         THEN [ag EXCEPT !.results = Append(ag.results, msg.c),
                         !.submap = @ \cup LinkedTools(msg, subagent_data)]
         ELSE LET assistants == FinalizeParts(ag)
                  e == EmitTurn(ag, assistants, all, turn_count, failAt,
                                subagent_data)
              IN IF e.status # "run" THEN e
                 ELSE [e EXCEPT !.user = i, !.assistants = <<>>,
                                !.parts = <<>>, !.mid = 0, !.results = <<>>]
    ELSE IF msg.k = "asst"
    THEN IF msg.mid = 0 \/ msg.mid = ag.mid
         THEN [ag EXCEPT !.parts = Append(ag.parts, msg)]
         ELSE [ag EXCEPT !.assistants = FinalizeParts(ag),
                         !.mid = msg.mid,
                         !.parts = <<msg>>]
    ELSE ag

\* The grouping loop over the parsed new messages, in file order. idx is the
\* sequence of the file indexes of the lines json.loads accepted.
RECURSIVE GroupLoop(_, _, _, _, _, _)
GroupLoop(ag, all, idx, turn_count, failAt, subagent_data) ==
    IF idx = <<>> \/ ag.status # "run" THEN ag
    ELSE GroupLoop(StepMsg(ag, all, Head(idx), turn_count, failAt,
                           subagent_data),
                   all, Tail(idx), turn_count, failAt, subagent_data)

\* lines 460-468: the final turn
FinalTurn_NoMerge(ag, all, turn_count, failAt, subagent_data) ==
    IF ag.status # "run" THEN ag
    ELSE EmitTurn(ag, ag.assistants, all, turn_count, failAt, subagent_data)
FinalTurn(ag, all, turn_count, failAt, subagent_data) ==
    IF ag.status # "run" THEN ag
    ELSE LET assistants == FinalizeParts(ag)
         IN EmitTurn([ag EXCEPT !.assistants = assistants], assistants, all,
                     turn_count, failAt, subagent_data)

\* transcript_file.read_text().strip().split("\n"): an empty file yields [""]
ReadLines(f) == IF f = <<>> THEN <<BadLine>> ELSE f

\* lines 368-374: the lines from last_line on that json.loads accepts
NewMessages_StopAtBad(lines, last_line) ==
    LET RECURSIVE Pick(_)
        Pick(i) == IF i > Len(lines) \/ lines[i].k = "bad" THEN <<>>
                   ELSE <<i>> \o Pick(i + 1)
    IN Pick(last_line + 1)
NewMessages(lines, last_line) ==
    LET RECURSIVE Pick(_)
        Pick(i) == IF i > Len(lines) THEN <<>>
                   ELSE IF lines[i].k = "bad" THEN Pick(i + 1)
                   ELSE <<i>> \o Pick(i + 1)
    IN Pick(last_line + 1)

\* process_transcript on the file content f with the state dict st.
\*   gone    the file vanished after it was found (read_text raises)
\*   ret     "return" (normal return), "raise" (an exception left the function)
\*   saved   whether save_state was reached; st is then the dict it wrote
\*   parsed  the file indexes of the lines json.loads accepted, in the order
\*           they were parsed
\*   why     "none", or what raised: "vanished", "emitfail", "crash"
ProcessTranscript(f, st, failAt, subagent_data, gone) ==
    LET last_line == GetLastLine(st)
        turn_count == GetTurnCount(st)
        lines == ReadLines(f)
        total_lines == Len(lines)
        new_messages == NewMessages(lines, last_line)
        quiet == [ret |-> "return", turns |-> 0, out |-> <<>>, saved |-> FALSE,
                  st |-> st, from |-> last_line, total |-> total_lines,
                  parsed |-> <<>>, why |-> "none"]
    IN IF gone
       THEN [quiet EXCEPT !.ret = "raise", !.total = 0, !.why = "vanished"]
       ELSE IF last_line >= total_lines THEN quiet
       ELSE IF new_messages = <<>> THEN quiet
       ELSE LET ag == FinalTurn(GroupLoop(InitAgg, lines, new_messages,
                                          turn_count, failAt, subagent_data),
                                lines, turn_count, failAt, subagent_data)
            IN IF ag.status # "run"
               THEN [quiet EXCEPT !.ret = "raise", !.out = ag.out,
                                  !.parsed = new_messages,
                                  !.why = ag.status]
               ELSE [quiet EXCEPT !.turns = ag.turns, !.out = ag.out,
                                  !.parsed = new_messages,
                                  !.saved = TRUE,
                                  !.st = UpdateState(st, total_lines,
                                                     turn_count + ag.turns)]

\* ---------------------------------------------------- sub-execution log
\* process_subagent_transcript, lines 523-555. acc holds tool_calls (calls),
\* the keys of pending_tools in insertion order (pending) and whether msg.get
\* raised on a line that is no object (status "crash").
RECURSIVE SubUses(_, _)
SubUses(pending, uses) ==
    IF uses = <<>> THEN pending
    ELSE SubUses(IF \E j \in 1..Len(pending) : pending[j] = Head(uses).x
                 THEN pending
                 ELSE Append(pending, Head(uses).x),
                 Tail(uses))

RECURSIVE SubResults(_, _)
SubResults(acc, items) ==
    IF items = <<>> THEN acc
    ELSE LET tool_id == Head(items).x
             hit == IsToolResultBlock(Head(items))
                      /\ \E j \in 1..Len(acc.pending) : acc.pending[j] = tool_id
         IN SubResults(
              IF hit
              THEN [acc EXCEPT
                      !.calls = Append(@, [id |-> tool_id,
                                           output |-> ResultContent(tool_id)]),
                      !.pending = SelectSeq(@, LAMBDA x : x # tool_id)]
              ELSE acc,
              Tail(items))

SubStep(acc, msg) ==
    IF msg.k = "nonobj" THEN [acc EXCEPT !.status = "crash"]
    ELSE IF msg.k = "asst"
    THEN [acc EXCEPT !.pending = SubUses(@, get_tool_calls(msg.c))]
    ELSE IF msg.k \in {"user", "result"} /\ is_tool_result(msg)
    THEN SubResults(acc, msg.c)
    ELSE acc

RECURSIVE SubLoop(_, _, _)
SubLoop(acc, all, idx) ==
    IF idx = <<>> \/ acc.status # "run" THEN acc
    ELSE SubLoop(SubStep(acc, all[Head(idx)]), all, Tail(idx))

\* process_subagent_transcript on the sub-execution log sub (exists, lines)
\* with the state dict st. gone: the file vanished after it was listed.
\*   ret    "return" or "raise" (read_text or msg.get raised)
\*   tools  the tool calls returned (matched ones, then the unmatched ones)
\*   saved  whether save_state was reached; st is then the dict it wrote
process_subagent_transcript(sub, st, gone) ==
    LET last_line == IF st.sub_has THEN st.sub_last_line ELSE 0
        lines == ReadLines(sub.lines)
        total_lines == Len(lines)
        new_messages == NewMessages(lines, last_line)
        quiet == [ret |-> "return", tools |-> <<>>, saved |-> FALSE, st |-> st]
    IN IF gone THEN [quiet EXCEPT !.ret = "raise"]
       ELSE IF last_line >= total_lines THEN quiet
       ELSE IF new_messages = <<>> THEN quiet
       ELSE LET acc == SubLoop([calls |-> <<>>, pending |-> <<>>,
                                status |-> "run"], lines, new_messages)
            IN IF acc.status # "run" THEN [quiet EXCEPT !.ret = "raise"]
               ELSE [quiet EXCEPT
                       !.tools = acc.calls \o
                                   [j \in 1..Len(acc.pending) |->
                                       [id |-> acc.pending[j],
                                        output |-> NoOutput]],
                       !.saved = TRUE,
                       !.st = UpdateSubState(st, total_lines)]

\* ------------------------------------------------ unified tracker: data
ToolIds == {"t1", "t2"}
NoId == "none"
Null == -1

\* The values a result key of the hook input may hold:
\*   "None"         the key is absent
\*   "EmptyDict"    {}
\*   "OkDict"       a non-empty mapping without an error entry
\*   "ErrDict"      a mapping whose error entry is a non-empty text
\*   "NullErrDict"  a non-empty mapping whose error entry is null
\*   "Str"          a non-empty text
Values == {"None", "EmptyDict", "OkDict", "ErrDict", "NullErrDict", "Str"}

\* Python truthiness
Truthy(v) == v \notin {"None", "EmptyDict"}

\* The result keys of a PostToolUse input, in the order the code reads them:
\* <<tool_response, tool_result, result, output>>.
NoPayload == <<"None", "None", "None", "None">>
Payloads ==
    { NoPayload,
      <<"OkDict", "None", "None", "None">>,
      <<"ErrDict", "None", "None", "None">>,
      <<"NullErrDict", "None", "None", "None">>,
      <<"EmptyDict", "ErrDict", "None", "None">>,
      <<"Str", "ErrDict", "None", "None">>,
      <<"None", "None", "OkDict", "ErrDict">>,
      <<"None", "None", "None", "ErrDict">>,
      <<"None", "OkDict", "ErrDict", "None">>,
      <<"EmptyDict", "EmptyDict", "EmptyDict", "EmptyDict">> }

\* lines 324-330: a or b or c or d or {}
ToolResultOf_FirstPresent(p) ==
    IF p[1] # "None" THEN p[1]
    ELSE IF p[2] # "None" THEN p[2]
    ELSE IF p[3] # "None" THEN p[3]
    ELSE IF p[4] # "None" THEN p[4]
    ELSE "EmptyDict"
ToolResultOf(p) ==
    IF Truthy(p[1]) THEN p[1]
    ELSE IF Truthy(p[2]) THEN p[2]
    ELSE IF Truthy(p[3]) THEN p[3]
    ELSE IF Truthy(p[4]) THEN p[4]
    ELSE "EmptyDict"

\* line 333: isinstance(tool_result, dict) and tool_result.get('error')
IsError_KeyPresent(v) == v \in {"ErrDict", "NullErrDict"}
IsError(v) == v = "ErrDict"

\* A hook input: session_id says whether the key is present.
ToolNames == {"Edit", "Task"}
ToolHooks ==
    [session_id : BOOLEAN, tool_use_id : ToolIds \cup {NoId},
     tool_name : {"Edit"}, payload : {NoPayload}]
      \cup [session_id : {TRUE}, tool_use_id : {"t2"},
            tool_name : {"Task"}, payload : {NoPayload}]
PostHooks ==
    [session_id : {TRUE}, tool_use_id : {"t1"}, tool_name : {"Edit"},
     payload : Payloads]
      \cup ToolHooks
StopHooks ==
    [session_id : BOOLEAN, tool_use_id : {NoId}, tool_name : {"Edit"},
     payload : {NoPayload}]

\* ObservabilityTracker.__init__ (lines 43-57). active_spans maps a
\* tool_use_id to the index of its span in spans, 0 when it holds no span.
\* The three timestamps of session_metrics are not modelled.
FreshTracker ==
    [active_spans |-> [t \in ToolIds |-> 0],
     metrics |-> [tool_count |-> 0, tool_errors |-> 0, tool_successes |-> 0,
                  tools_by_name |-> [n \in ToolNames |-> 0]]]

\* trace.span(...), lines 281-291: the backend stamps the start time. ends
\* counts the span.end calls on the span that returned.
NewSpan(h, t) ==
    [id |-> h.tool_use_id, name |-> h.tool_name, start |-> t, end |-> Null,
     level |-> "DEFAULT", success |-> "unset", status |-> "none",
     output |-> "None", by |-> "none", hook |-> NoPayload, ends |-> 0]

\* handle_pre_tool_use. trace: what _get_trace gave ("none": no client or no
\* trace; "nospan": a trace without span(); "ok"); raise: trace.span raises.
handle_pre_tool_use(trk, sp, h, trace, raise, t) ==
    IF ~h.session_id \/ h.tool_use_id = NoId
    THEN [tracker |-> trk, spans |-> sp]
    ELSE LET m == [trk.metrics EXCEPT
                      !.tool_count = @ + 1,
                      !.tools_by_name[h.tool_name] = @ + 1]
         IN IF trace = "ok" /\ ~raise
            THEN [tracker |-> [active_spans |->
                                   [trk.active_spans EXCEPT
                                      ![h.tool_use_id] = Len(sp) + 1],
                               metrics |-> m],
                  spans |-> Append(sp, NewSpan(h, t))]
            ELSE [tracker |-> [trk EXCEPT !.metrics = m], spans |-> sp]

\* span.end(...) of handle_tool_use, lines 344-352
EndSpan(s, h, t) ==
    LET tool_result == ToolResultOf(h.payload)
        is_error == IsError(tool_result)
    IN [s EXCEPT !.end = t,
                 !.output = IF Truthy(tool_result) THEN tool_result ELSE "None",
                 !.success = IF is_error THEN "false" ELSE "true",
                 !.level = IF is_error THEN "ERROR" ELSE "DEFAULT",
                 !.status = IF is_error THEN "error" ELSE "none",
                 !.by = "post",
                 !.hook = h.payload,
                 !.ends = @ + 1]

\* handle_tool_use. raise: span.end raises (caught at line 359).
handle_tool_use_KeepActive(trk, sp, h, raise, t) ==
    IF ~h.session_id \/ h.tool_use_id = NoId
    THEN [tracker |-> trk, spans |-> sp]
    ELSE LET span == trk.active_spans[h.tool_use_id]
             is_error == IsError(ToolResultOf(h.payload))
             m == IF is_error
                  THEN [trk.metrics EXCEPT !.tool_errors = @ + 1]
                  ELSE [trk.metrics EXCEPT !.tool_successes = @ + 1]
         IN IF span # 0 /\ ~raise
            THEN [tracker |-> [trk EXCEPT !.metrics = m],
                  spans |-> [sp EXCEPT ![span] = EndSpan(sp[span], h, t)]]
            ELSE [tracker |-> [trk EXCEPT !.metrics = m], spans |-> sp]
handle_tool_use(trk, sp, h, raise, t) ==
    IF ~h.session_id \/ h.tool_use_id = NoId
    THEN [tracker |-> trk, spans |-> sp]
    ELSE LET span == trk.active_spans[h.tool_use_id]
             is_error == IsError(ToolResultOf(h.payload))
             m == IF is_error
                  THEN [trk.metrics EXCEPT !.tool_errors = @ + 1]
                  ELSE [trk.metrics EXCEPT !.tool_successes = @ + 1]
         IN IF span # 0 /\ ~raise
            THEN [tracker |-> [active_spans |->
                                   [trk.active_spans EXCEPT
                                      ![h.tool_use_id] = 0],
                               metrics |-> m],
                  spans |-> [sp EXCEPT ![span] = EndSpan(sp[span], h, t)]]
            ELSE [tracker |-> [trk EXCEPT !.metrics = m], spans |-> sp]

\* span.end(...) of handle_stop, lines 528-531
OrphanSpan(s, t) ==
    [s EXCEPT !.end = t, !.level = "WARNING", !.status = "orphan",
              !.by = "stop", !.ends = @ + 1]

\* The spans pending in active_spans.
Pending(trk) == {trk.active_spans[i] : i \in ToolIds} \ {0}

\* handle_stop, lines 513-534. failing: the tool_use_ids whose span.end raises
\* (except Exception: pass).
handle_stop(trk, sp, h, failing, t) ==
    IF ~h.session_id
    THEN [tracker |-> trk, spans |-> sp]
    ELSE LET ended == {i \in ToolIds :
                          trk.active_spans[i] # 0 /\ i \notin failing}
             idx == {trk.active_spans[i] : i \in ended}
         IN [tracker |-> [trk EXCEPT !.active_spans =
                              [i \in ToolIds |->
                                  IF i \in ended THEN 0 ELSE @[i]]],
             spans |-> [k \in 1..Len(sp) |->
                           IF k \in idx THEN OrphanSpan(sp[k], t) ELSE sp[k]]]

\* _compute_session_metrics, lines 683-693: the counters reported at Stop.
\* error_rate is tool_errors / tool_count, 0 when tool_count is 0; it is
\* held as the pair <<numerator, denominator>>.
compute_session_metrics(trk) ==
    [total_tools |-> trk.metrics.tool_count,
     tool_successes |-> trk.metrics.tool_successes,
     tool_errors |-> trk.metrics.tool_errors,
     error_rate |-> IF trk.metrics.tool_count > 0
                    THEN <<trk.metrics.tool_errors, trk.metrics.tool_count>>
                    ELSE <<0, 1>>,
     tools_by_name |-> trk.metrics.tools_by_name]

\* What a process wrote to standard output (one entry per JSON object
\* printed) and its exit status; NoOutcome when no process of main ran.
NoOutcome == [stdout |-> <<>>, exit |-> 0]

NoEvent ==
    [ev |-> "none", id |-> NoId, sid |-> FALSE, pending |-> {},
     stdout |-> <<>>, exit |-> 0]

TrackerInit ==
    /\ tracker = FreshTracker
    /\ spans = <<>>
    /\ now = 0
    /\ last = NoEvent

\* ------------------------------------- observability-tracker.py: data
MaxTools == 2
MaxSessions == 2

\* session_data. start tells whether the dict is non-empty (it then holds
\* start_time and the lists of initialize_session); tools is
\* total_tool_calls, used is the length of tools_used, modified and created
\* are files_modified and files_created, prompts is prompts_submitted, ended
\* tells whether end_time and summary are set, err whether langfuse_error
\* is set.
NoSession ==
    [start |-> FALSE, tools |-> 0, used |-> 0, modified |-> <<>>,
     created |-> <<>>, prompts |-> 0, ended |-> FALSE, err |-> FALSE]

\* The PostToolUse inputs: tool_name and tool_input.file_path ("": none).
ToolInputs == {<<"Edit", "a.py">>, <<"Write", "a.py">>, <<"Bash", "">>}

\* track_tool_usage, lines 90-102, on the loaded session_data d
Holds(list, x) == \E j \in 1..Len(list) : list[j] = x
track_tool_usage_NoTest(d, tool_name, file_path) ==
    [d EXCEPT !.modified = IF tool_name = "Edit" /\ file_path # ""
                           THEN Append(@, file_path) ELSE @,
              !.created = IF tool_name = "Write" /\ file_path # ""
                          THEN Append(@, file_path) ELSE @,
              !.used = @ + 1,
              !.tools = @ + 1]
track_tool_usage(d, tool_name, file_path) ==
    [d EXCEPT !.modified = IF tool_name = "Edit" /\ file_path # "" /\ ~Holds(@, file_path)
                           THEN Append(@, file_path) ELSE @,
              !.created = IF tool_name = "Write" /\ file_path # "" /\ ~Holds(@, file_path)
                          THEN Append(@, file_path) ELSE @,
              !.used = @ + 1,
              !.tools = @ + 1]

\* initialize_session, lines 41-53
NewSession == [NoSession EXCEPT !.start = TRUE]

\* current-session.json: absent, or the document _save_session wrote
AbsentSession == [kind |-> "absent", data |-> NoSession]
SessionDoc(d) == [kind |-> "doc", data |-> d]

\* _load_session: session_data stays {} when the file is absent
load_session(f) == IF f.kind = "doc" THEN f.data ELSE NoSession

\* The outcomes of the backend step of _send_to_langfuse: langfuse is not
\* enabled, the langfuse module cannot be imported, the push raises, the
\* push succeeds.
BackendOutcomes == {"disabled", "missing", "raises", "ok"}

\* _send_to_langfuse: on every outcome _archive_session is called; a push
\* that raised leaves langfuse_error in the record first.
send_to_langfuse_NoFallback(d, outcome) ==
    [archived |-> outcome \in {"disabled", "ok"}, data |-> d]
send_to_langfuse(d, outcome) ==
    [archived |-> TRUE,
     data |-> IF outcome = "raises" THEN [d EXCEPT !.err = TRUE] ELSE d]

\* finalize_session with observability enabled: what becomes of
\* current-session.json and what is added to sessions/. _save_session
\* (line 160) rewrites the file, _archive_session writes the archive file
\* and unlinks current-session.json.
finalize_session_NoSkip(f, outcome) ==
    LET d == load_session(f)
        e == [d EXCEPT !.ended = TRUE]
        sent == send_to_langfuse(e, outcome)
    IN IF sent.archived
       THEN [file |-> AbsentSession, archived |-> <<sent.data>>]
       ELSE [file |-> SessionDoc(e), archived |-> <<>>]
finalize_session(f, outcome) ==
    LET d == load_session(f)
        e == [d EXCEPT !.ended = TRUE]
        sent == send_to_langfuse(e, outcome)
    IN IF ~d.start THEN [file |-> f, archived |-> <<>>]
       ELSE IF sent.archived
       THEN [file |-> AbsentSession, archived |-> <<sent.data>>]
       ELSE [file |-> SessionDoc(e), archived |-> <<>>]

\* current-session.json between the truncation of Path.write_text and the
\* write of the document.
PartialSession == [kind |-> "partial", data |-> NoSession]

NoFileRun ==
    [act |-> "none", had |-> FALSE, data |-> NoSession, outcome |-> "none",
     before |-> 0, printed |-> <<>>]

FileInit ==
    /\ sessionFile = AbsentSession
    /\ archive = <<>>
    /\ fop = NoFileRun

\* The hook processes of SpecHookRace; runs counts the PostToolUse events a
\* process has handled to the end.
HookProcs == {1, 2}
HookInit ==
    /\ fpc = [p \in HookProcs |-> "idle"]
    /\ fmem = [p \in HookProcs |-> [data |-> NoSession, runs |-> 0]]

\* ----------------------------------------------------------- configuration
\* config.py. A configuration is a mapping from keys to values; a value is an
\* atom or a nested mapping: isDict is isinstance(value, dict), items the
\* nested mapping. The atom of a value is the name of the source that wrote it.
NoItems == [k \in {} |-> "none"]
Atom(v) == [isDict |-> FALSE, atom |-> v, items |-> NoItems]
Dict(f) == [isDict |-> TRUE, atom |-> "none", items |-> f]

\* The key paths of the configuration that are modelled, and the document
\* that defines the paths of a shape, every leaf written by src.
CfgPaths == {<<"enabled">>, <<"observability", "enabled">>, <<"observability", "debug">>}
CfgShapes == {{}, {<<"enabled">>}, {<<"observability", "debug">>}, {<<"enabled">>, <<"observability", "enabled">>}}
DocOf(src, shape) ==
    LET top == {p[1] : p \in shape}
        sub == {p[2] : p \in {q \in shape : Len(q) = 2}}
    IN [key \in top |-> IF key = "enabled" THEN Atom(src)
                        ELSE Dict([k \in sub |-> Atom(src)])]

\* get_default_config, restricted to the modelled paths
get_default_config == DocOf("default", CfgPaths)

\* The files load_config reads, lowest priority first, and what a file holds:
\*   "absent"   the file does not exist
\*   "bad"      it cannot be read or is not YAML (yaml.safe_load raises)
\*   "nofront"  a .md file that does not start with a --- frontmatter
\*   "scalar"   YAML that is a text or a list, not a mapping
\*   "doc"      a YAML mapping, possibly empty
CfgSources == {"global_md", "global_yaml", "project_md", "project_yaml"}
YamlSources == {"global_yaml", "project_yaml"}
CfgFile(kind, doc) == [kind |-> kind, doc |-> doc]
CfgContents(src) ==
    {CfgFile(k, NoItems) : k \in {"absent", "bad", "scalar"} \cup (IF src \in YamlSources THEN {} ELSE {"nofront"})}
    \cup {CfgFile("doc", DocOf(src, shape)) : shape \in CfgShapes}

\* load_yaml_file and load_legacy_md_file: None, the mapping, or the value
\* that is no mapping. "yaml.safe_load(content) or {}" makes {} of an empty
\* document, which is not None.
NoneLoaded == [ret |-> "None", doc |-> NoItems]
load_yaml_file(f) ==
    IF f.kind \in {"absent", "bad"} THEN NoneLoaded
    ELSE [ret |-> f.kind, doc |-> f.doc]
load_legacy_md_file(f) ==
    IF f.kind \in {"absent", "bad", "nofront"} THEN NoneLoaded
    ELSE [ret |-> f.kind, doc |-> f.doc]

\* deep_merge: the keys of override replace those of base, except that two
\* mappings under the same key are merged in turn.
RECURSIVE deep_merge(_, _)
deep_merge(base, override) ==
    [key \in DOMAIN base \cup DOMAIN override |->
        IF key \notin DOMAIN override THEN base[key]
        ELSE IF key \in DOMAIN base /\ base[key].isDict /\ override[key].isDict
        THEN Dict(deep_merge(base[key].items, override[key].items))
        ELSE override[key]]

\* get_config_value: the value under a path, NoValue when a key is missing
NoValue == Atom("missing")
RECURSIVE get_config_value(_, _)
get_config_value(cfg, path) ==
    IF path = <<>> THEN Dict(cfg)
    ELSE IF path[1] \notin DOMAIN cfg THEN NoValue
    ELSE IF Len(path) = 1 THEN cfg[path[1]]
    ELSE IF cfg[path[1]].isDict THEN get_config_value(cfg[path[1]].items, Tail(path))
    ELSE NoValue

\* One tier of load_config (lines 285-290, 293-298): the YAML file, the
\* legacy file only when load_yaml_file returned None, and the merge when
\* the loaded value is truthy. override.items() raises an AttributeError on a
\* value that is no mapping.
MergeTier(acc, yaml, md) ==
    LET y == load_yaml_file(yaml)
        loaded == IF y.ret = "None" THEN load_legacy_md_file(md) ELSE y
    IN IF acc.ret = "raise" THEN acc
       ELSE IF loaded.ret = "scalar" THEN [ret |-> "raise", cfg |-> NoItems]
       ELSE IF loaded.ret = "doc" /\ DOMAIN loaded.doc # {}
       THEN [ret |-> "return", cfg |-> deep_merge(acc.cfg, loaded.doc)]
       ELSE acc

\* load_config: defaults, then the global tier, then the project tier. The
\* modelled values hold no ${VAR} reference, so expand_env_vars (line 301)
\* returns them as they are.
load_config(files) ==
    MergeTier(MergeTier([ret |-> "return", cfg |-> get_default_config],
                        files["global_yaml"], files["global_md"]),
              files["project_yaml"], files["project_md"])

NotLoaded == [ret |-> "none", cfg |-> NoItems]
CfgInit ==
    /\ cfgFiles = [s \in CfgSources |-> CfgFile("absent", NoItems)]
    /\ config = NotLoaded

\* ------------------------------------------------ the projects directory
MaxMtime == 3

\* The *.jsonl files that lie directly in a project directory, by stem: the
\* logs of two sessions, and the log of a sub-execution (the docstring of
\* find_latest_transcript: "agent files have agent-*.jsonl names").
SessionLogs == {"s1", "s2"}
AgentLogs == {"agent-a1"}
FileNames == SessionLogs \cup AgentLogs

\* The first line of a file: a JSON object that holds sessionId, a JSON object
\* that holds none, text that is no JSON (the empty line of an empty file
\* included), JSON that is no object.
FirstLines == {"object", "noid", "bad", "nonobj"}
SessionIdIn(name) == IF name \in AgentLogs THEN "s1" ELSE name

\* lines is the content of a file; SpecFind, which runs no pass, leaves it out.
NoFile == [present |-> FALSE, mtime |-> 0, first |-> "bad", lines |-> <<>>]
NoDir == [root |-> FALSE, files |-> [n \in FileNames |-> NoFile]]

\* The orders in which iterdir and glob may yield the files.
Orders ==
    {o \in [1..Cardinality(FileNames) -> FileNames] :
        \A i, j \in DOMAIN o : i # j => o[i] # o[j]}

\* lines 167-179: the loop that keeps the file with the greatest st_mtime;
\* a file replaces the kept one only when its mtime is strictly greater.
RECURSIVE LatestFile(_, _, _, _)
LatestFile(d, order, latest_file, latest_mtime) ==
    IF order = <<>> THEN latest_file
    ELSE LET f == d.files[Head(order)]
         IN IF f.present /\ f.mtime > latest_mtime
            THEN LatestFile(d, Tail(order), Head(order), f.mtime)
            ELSE LatestFile(d, Tail(order), latest_file, latest_mtime)

NoneFound == [ret |-> "none", file |-> "none", session_id |-> "none"]

\* find_latest_transcript over the directory d, the files yielded in the
\* given order. ret is "none" (None returned), "found", or "raise"
\* (first_msg.get raised AttributeError, which line 189 does not name).
FindLatest(d, order) ==
    LET latest_file == LatestFile(d, order, "none", 0)
        first == d.files[latest_file].first
    IN IF ~d.root \/ latest_file = "none" THEN NoneFound
       ELSE IF first = "bad" THEN NoneFound
       ELSE IF first = "nonobj"
       THEN [ret |-> "raise", file |-> latest_file, session_id |-> "none"]
       ELSE [ret |-> "found", file |-> latest_file,
             session_id |-> IF first = "object" THEN SessionIdIn(latest_file)
                            ELSE latest_file]

DirInit ==
    /\ dir = NoDir
    /\ located = NoneFound

\* -------------------------------------------------- sequential invocations
Procs == {1, 2}

\* find_latest_transcript on the one log file of the projects directory:
\*   "none"   the first line is empty or not JSON (returns None)
\*   "raise"  the first line is JSON but no object (first_msg.get raises an
\*            AttributeError, which the except clause does not name)
\*   "found"  otherwise
find_latest_transcript(f) ==
    IF f = <<>> \/ f[1].k = "bad" THEN "none"
    ELSE IF f[1].k = "nonobj" THEN "raise"
    ELSE "found"

\* find_subagent_transcripts: whether subagents/agent-a1.jsonl is listed
find_subagent_transcripts(sub) == sub.exists

\* What one run of main leaves in op. ret is what became of the pass:
\* "return", "raise" (caught at line 679), "notrun" (main left before the
\* pass) or "died" (an exception left main). exit is the exit status of the
\* process: sys.exit(0) at lines 641 and 686, 1 after an uncaught exception.
\* subtools is what process_subagent_transcript returned.
OpOf(act, r, subtools) ==
    [act |-> act, ret |-> r.ret, turns |-> r.turns, from |-> r.from,
     total |-> r.total, why |-> r.why, parsed |-> r.parsed,
     subtools |-> subtools, exit |-> 0]
NoRun(act, ret) ==
    [act |-> act, ret |-> ret, turns |-> 0, from |-> 0, total |-> 0,
     why |-> "none", parsed |-> <<>>, subtools |-> <<>>,
     exit |-> IF ret = "died" THEN 1 ELSE 0]

\* save_state: Path.write_text of the whole document
save_state(st) == DocFile(st)

NoSubLog == [exists |-> FALSE, lines |-> <<>>]

SyncInit ==
    /\ log = <<>>
    /\ sublog = NoSubLog
    /\ stateFile = AbsentFile
    /\ calls = <<>>
    /\ op = NoRun("init", "notrun")
    /\ aborts = 0
    /\ consumed = [i \in 1..MaxLog |-> 0]

Init ==
    /\ SyncInit
    /\ pc = [p \in Procs |-> "off"]
    /\ mem = [p \in Procs |-> EmptyState]
    /\ TrackerInit
    /\ FileInit
    /\ DirInit
    /\ HookInit
    /\ CfgInit

\* The session appends one line to its log.
AppendLine(l) ==
    /\ Len(log) < MaxLog
    /\ log' = Append(log, l)
    /\ op' = NoRun("append", "notrun")
    /\ UNCHANGED <<sublog, stateFile, calls, aborts, consumed, pc, mem, trackerVars, fileVars, dirVars, cfgVars, hookVars>>

\* A pass that an exception ended after it had read lines: the state is not
\* saved, so the next pass reads them again.
Aborted(r) == r.ret = "raise" /\ r.why # "vanished"

\* What may vanish during a run of main: nothing, the primary log after
\* find_latest_transcript found it, the sub-execution log after
\* find_subagent_transcripts listed it.
Vanishings == {"none", "primary", "sub"}

\* The passes that parsed each line, after one more pass parsed the lines
\* of the indexes in parsed (the new_messages of lines 368-374).
Consume(count, parsed) ==
    [i \in DOMAIN count |->
        IF \E j \in 1..Len(parsed) : parsed[j] = i THEN count[i] + 1
        ELSE count[i]]

\* One whole run of main (tracing enabled, keys configured): load_state,
\* find_latest_transcript, the loop over the sub-execution logs (lines
\* 655-663, outside the try), process_transcript inside try/except, exit.
\* process_subagent_transcript and process_transcript each write the state
\* file themselves; the last write is what the file holds afterwards.
Main(failAt, gone) ==
    LET found == find_latest_transcript(log)
        state == load_state(stateFile)
        listed == find_subagent_transcripts(sublog)
        nothing == UNCHANGED <<log, sublog, stateFile, calls, aborts, consumed, pc, mem,
                               trackerVars, fileVars, dirVars, cfgVars, hookVars>>
    IN /\ gone = "sub" => listed
       /\ IF load_state_raises(stateFile) \/ found = "raise"
          THEN op' = NoRun("pass", "died") /\ nothing
          ELSE IF found = "none"
          THEN op' = NoRun("pass", "notrun") /\ nothing
          ELSE \E sub \in {process_subagent_transcript(sublog, state,
                                                       gone = "sub")} :
            IF listed /\ sub.ret = "raise"
            THEN op' = NoRun("pass", "died") /\ nothing
            ELSE LET subagent_data ==
                       IF listed THEN [has |-> TRUE, tools |-> sub.tools]
                       ELSE NoSubagents
                     st1 == IF listed THEN sub.st ELSE state
                 IN \E r \in {ProcessTranscript(log, st1, failAt,
                                                subagent_data,
                                                gone = "primary")} :
                      /\ Aborted(r) => aborts < MaxAbort
                      /\ calls' = calls \o r.out
                      /\ stateFile' = IF r.saved THEN save_state(r.st)
                                      ELSE IF listed /\ sub.saved
                                           THEN save_state(sub.st)
                                           ELSE stateFile
                      /\ aborts' = IF Aborted(r) THEN aborts + 1 ELSE aborts
                      /\ consumed' = Consume(consumed, r.parsed)
                      /\ op' = OpOf("pass", r, subagent_data.tools)
                      /\ UNCHANGED <<log, sublog, pc, mem, trackerVars, fileVars, dirVars, cfgVars, hookVars>>

Next ==
    \/ \E l \in Lines : AppendLine(l)
    \/ \E failAt \in 0..(Len(log) \div 2) : Main(failAt, "none")

Spec == Init /\ [][Next]_vars

\* ------------------------------------------- a session with a sub-execution
\* The session spawns the sub-execution "a1" through a Task tool call; the
\* sub-execution writes its own log; files may vanish while main runs.
MaxSub == 2
SubRunLines == {UserLine, AsstTask, TaskResult}
SubLogLines == {SubUse, SubResult, NonObjLine}

SubAppend(l) ==
    /\ Len(sublog.lines) < MaxSub
    /\ sublog' = [exists |-> TRUE, lines |-> Append(sublog.lines, l)]
    /\ op' = NoRun("subappend", "notrun")
    /\ UNCHANGED <<log, stateFile, calls, aborts, consumed, pc, mem, trackerVars, fileVars, dirVars, cfgVars, hookVars>>

SubNext ==
    \/ \E l \in SubRunLines : AppendLine(l)
    \/ \E l \in SubLogLines : SubAppend(l)
    \/ \E failAt \in 0..(Len(log) \div 2), gone \in Vanishings :
          Main(failAt, gone)

SpecSub == Init /\ [][SubNext]_vars

\* ------------------------------------------------- nesting without faults
\* The session of SpecSub with a second kind of tool call in the primary log
\* (t1, Edit), a reachable backend and no vanishing file: what is nested
\* where, when nothing fails.
NestLines == {UserLine, AsstTask, TaskResult, AsstTool1}
NestSubLines == {SubUse, SubResult}

NestNext ==
    \/ \E l \in NestLines : AppendLine(l)
    \/ \E l \in NestSubLines : SubAppend(l)
    \/ Main(0, "none")

SpecNest == Init /\ [][NestNext]_vars

\* ------------------------------------------- locating the session log
\* The projects directory is created.
MkRoot ==
    /\ ~dir.root
    /\ dir' = [dir EXCEPT !.root = TRUE]
    /\ UNCHANGED <<located, syncVars, raceVars, trackerVars, fileVars, hookVars, cfgVars>>

\* A file is created with the given first line, or an existing one grows;
\* its modification time is the clock, which never runs backwards and may
\* show the same value for two writes.
WriteFile(n, first, t) ==
    /\ dir.root
    /\ \A m \in FileNames : dir.files[m].mtime <= t
    /\ dir' = [dir EXCEPT !.files[n] =
                  [present |-> TRUE, mtime |-> t,
                   first |-> IF @.present THEN @.first ELSE first,
                   lines |-> @.lines]]
    /\ UNCHANGED <<located, syncVars, raceVars, trackerVars, fileVars, hookVars, cfgVars>>

\* main up to line 647: load_state, find_latest_transcript, and sys.exit(0)
\* when nothing was found. What main does with a file it found is the pass
\* of Main above.
Locate(order) ==
    LET result == FindLatest(dir, order)
        died == load_state_raises(stateFile) \/ result.ret = "raise"
    IN /\ located' = result
       /\ op' = NoRun("locate", IF died THEN "died" ELSE "notrun")
       /\ UNCHANGED <<dir, log, sublog, stateFile, calls, aborts, consumed, raceVars,
                      trackerVars, fileVars, hookVars, cfgVars>>

FindNext ==
    \/ MkRoot
    \/ \E n \in FileNames, first \in FirstLines, t \in 1..MaxMtime :
          WriteFile(n, first, t)
    \/ \E order \in Orders : Locate(order)

SpecFind == Init /\ [][FindNext]_vars

\* ------------------------------------------------ a damaged state file
\* What a state file that cannot be parsed holds: a truncated document, or
\* bytes that are no text. The backend is reachable and every log line is
\* an object or invalid JSON, so nothing but the state file can end a pass.
CorruptFiles == {PartialFile, UndecodableFile}
CorruptLines == {UserLine, AsstText2, ResultLine, BadLine}

\* The state file is damaged between two runs of main. aborts counts the
\* damages here (no pass of this specification aborts on the backend).
Damage(f) ==
    /\ aborts < MaxAbort
    /\ stateFile' = f
    /\ aborts' = aborts + 1
    /\ op' = NoRun("damage", "notrun")
    /\ UNCHANGED <<log, sublog, calls, consumed, pc, mem, trackerVars, fileVars, dirVars, cfgVars, hookVars>>

CorruptNext ==
    \/ \E l \in CorruptLines : AppendLine(l)
    \/ \E f \in CorruptFiles : Damage(f)
    \/ Main(0, "none")

SpecCorrupt == Init /\ [][CorruptNext]_vars

\* ------------------------------------------------ properties of the sync
\* The cursor and the turn counter the state file holds for the session.
HasEntry == stateFile.kind = "doc" /\ stateFile.doc.has
PersistedLastLine == IF HasEntry THEN stateFile.doc.last_line ELSE 0
PersistedTurnCount == IF HasEntry THEN stateFile.doc.turn_count ELSE 0

\* What two passes emit: one over the lines [0, n), one after the rest of f
\* was appended, starting from an empty state file.
TwoPasses(f, n) ==
    LET r1 == ProcessTranscript(SubSeq(f, 1, n), EmptyState, 0, NoSubagents,
                                FALSE)
        st1 == IF r1.saved THEN r1.st ELSE EmptyState
        r2 == ProcessTranscript(f, st1, 0, NoSubagents, FALSE)
    IN r1.out \o r2.out

\* What a single pass over f emits from an empty state.
OnePass(f) == ProcessTranscript(f, EmptyState, 0, NoSubagents, FALSE).out

\* C1 (as claimed): idempotent resumption. For the log f and every split
\* point n, a pass over f[0, n) followed by a pass after f[n, M) is appended
\* emits the same turns (numbers, user inputs, merged responses, tool spans)
\* as one pass over f from an empty state.
C1_IdempotentResumption ==
    \A n \in 0..Len(log) : TwoPasses(log, n) = OnePass(log)

\* C2: no duplication. A pass over a log that holds no line beyond the
\* persisted last_line makes no create_trace call, returns 0 and leaves the
\* state file as it was, however often it is repeated. (The pass reads the
\* log: a run in which the log file vanished is not a pass over that log.)
C2_NoDuplication ==
    [][(op'.act = "pass" /\ op'.why # "vanished"
          /\ Len(log) <= PersistedLastLine)
         => (/\ calls' = calls
             /\ stateFile' = stateFile
             /\ op'.ret # "raise"
             /\ op'.turns = 0)]_vars

\* C2 witness: after turns were emitted and the cursor saved, a further pass
\* found last_line >= total_lines and returned 0.
C2_Witness ==
    /\ op.act = "pass" /\ op.ret = "return" /\ op.turns = 0
    /\ op.from >= op.total /\ op.from = Len(log) /\ op.from > 0
    /\ calls # <<>>
    /\ PersistedLastLine = Len(log)

\* The turns the backend accepted, in emission order.
IsPushed(c) == c.ok
Pushed == SelectSeq(calls, IsPushed)

\* C3 (as claimed): the turn numbers of the emitted turns are 1, 2, 3, ... in
\* emission order, with no gap and no reuse, within a pass and across passes,
\* and after a completed pass the persisted turn_count is the number of turns
\* emitted so far. (Stated on the turns whose push succeeded: a number passed
\* again for a turn whose push had failed is not counted against the claim.)
C3_TurnNumbersSequential ==
    /\ \A i \in 1..Len(Pushed) : Pushed[i].num = i
    /\ (op.act = "pass" /\ op.ret = "return" /\ stateFile.kind = "doc")
          => PersistedTurnCount = Len(Pushed)

\* A user text at line i that has an assistant response (a fragment with a
\* message id) before the next user text.
HasResponse(i) ==
    /\ log[i].k = "user"
    /\ \E j \in (i + 1)..Len(log) :
          /\ log[j].k = "asst" /\ log[j].mid # 0
          /\ \A m \in (i + 1)..(j - 1) : log[m].k # "user"

TurnsOf(i) == {n \in 1..Len(calls) : calls[n].uidx = i}

\* Every line of the log has been consumed by passes none of which aborted.
Settled ==
    /\ op.act = "pass" /\ op.ret = "return" /\ aborts = 0
    /\ PersistedLastLine = Len(log)

\* C4 (as claimed): a user input is not lost when its response arrives after
\* the pass that read it. Once all lines are consumed, every user input that
\* has a response is carried by exactly one emitted turn, and no user input is
\* ever emitted in two turns.
C4_OpenTurnNotLost ==
    /\ Settled => \A i \in 1..Len(log) :
                     HasResponse(i) => Cardinality(TurnsOf(i)) = 1
    /\ aborts = 0 => \A i \in 1..Len(log) : Cardinality(TurnsOf(i)) <= 1

\* C5 (as claimed): when create_trace raises during a pass, the cursor is
\* still advanced to the number of lines read, and the turns pushed before the
\* failure are not emitted again.
C5_CursorAdvancesOnEmitFailure ==
    /\ (op.act = "pass" /\ op.why = "emitfail")
          => PersistedLastLine = op.total
    /\ \A i, j \in 1..Len(calls) :
          (i < j /\ calls[i].ok /\ calls[j].ok) => calls[i].uidx # calls[j].uidx

\* The tool_use blocks of the assistant messages of an emitted turn.
UsesOf(call) ==
    Flatten([j \in 1..Len(call.assts) |-> get_tool_calls(call.assts[j])])

\* C12 (as claimed): orphan detection in the transcript sync. Every tool_use
\* block of the assistant messages of an emitted turn is emitted as exactly
\* one tool span, and a span whose invocation has no matching tool_result in
\* the turn has a null output and carries the orphan flag.
C12_OrphanFlagged ==
    \A i \in 1..Len(calls) :
        /\ Len(calls[i].spans) = Len(UsesOf(calls[i]))
        /\ \A j \in 1..Len(calls[i].spans) :
              /\ calls[i].spans[j].id = UsesOf(calls[i])[j].x
              /\ calls[i].spans[j].output = NoOutput
                    => calls[i].spans[j].orphan

\* The full list of the tool calls of the sub-execution's log.
FullSubTools == process_subagent_transcript(sublog, EmptyState, FALSE).tools

\* The tool ids for which a tool result of the primary log declares the
\* sub-execution (toolUseResult.agentId).
Spawning ==
    UNION {LinkedTools(log[i], [has |-> TRUE, tools |-> <<>>]) :
              i \in 1..Len(log)}

\* The turns the last pass emitted.
LastEmitted == {i \in 1..Len(calls) : i > Len(calls) - op.turns}

\* C13 (as claimed): sub-execution nesting is complete. When a pass emits the
\* turn that holds the spawning tool call, the spans nested under that call
\* are the full list of the tool calls of the sub-execution's log, those of
\* lines an earlier pass had read included.
C13_NestingComplete ==
    (op.act = "pass" /\ sublog.exists) =>
        \A i \in LastEmitted : \A j \in 1..Len(calls[i].spans) :
            calls[i].spans[j].id \in Spawning =>
                /\ calls[i].spans[j].nested.has
                /\ calls[i].spans[j].nested.tools = FullSubTools

\* The sub-execution tool calls the backend was sent (create_trace is the only
\* place of the transcript sync that sends anything).
ForwardedSubTools ==
    {calls[i].spans[j].nested.tools :
        <<i, j>> \in {x \in (1..Len(calls)) \X (1..MaxLog) :
                         x[2] <= Len(calls[x[1]].spans)
                           /\ calls[x[1]].spans[x[2]].nested.has}}

\* C14 (as claimed): unattached sub-executions are forwarded. When a pass got
\* tool calls from the sub-execution log and no tool result of the primary
\* log declares the agent, those tool calls are still sent to the backend.
C14_UnattachedForwarded ==
    (op.act = "pass" /\ op.subtools # <<>> /\ Spawning = {})
        => op.subtools \in ForwardedSubTools

\* C15 (as claimed): no run of the transcript sync ends with a non-zero exit
\* status, whatever goes wrong inside it.
C15_ExitStatusZero == op.exit = 0

\* ------------------------------------------------ several session logs
\* Runs of main over a projects directory that holds several logs. The state
\* document is here the whole dict of load_state: one entry per session id
\* (the entry "<session id>/agent-a1" is held with the entry of its session).
\* by is history, not part of the file: the log whose pass wrote the entry.
MaxFileLines == 2
SessLine(k) == IF k % 2 = 1 THEN UserLine ELSE AsstText2
EmptyEntry ==
    [has |-> FALSE, last_line |-> 0, turn_count |-> 0, sub_has |-> FALSE,
     sub_last_line |-> 0, by |-> "none"]
NoEntries == [sid \in FileNames |-> EmptyEntry]
LoadEntries(f) == IF f.kind = "doc" THEN load_state(f) ELSE NoEntries

\* state[key] = {...} of lines 471-475 and 558-562: the entry of one key is
\* replaced in the dict that load_state returned.
StoreEntry_Alone(state, sid, entry, file) ==
    [s \in DOMAIN state |-> IF s = sid THEN [entry EXCEPT !.by = file] ELSE EmptyEntry]
StoreEntry(state, sid, entry, file) ==
    [state EXCEPT ![sid] = [entry EXCEPT !.by = file]]

\* A line is appended to a log of the directory (the first one creates the
\* file; its first line is an object that holds sessionId). Every log holds
\* the same exchange: a user text, then the assistant's answer. The clock
\* has advanced since the last write, so no two logs share an mtime.
SessAppend(n, t) ==
    /\ dir.root
    /\ Len(dir.files[n].lines) < MaxFileLines
    /\ \A m \in FileNames : dir.files[m].mtime < t
    /\ dir' = [dir EXCEPT !.files[n] =
                  [present |-> TRUE, mtime |-> t, first |-> "object",
                   lines |-> Append(@.lines, SessLine(Len(@.lines) + 1))]]
    /\ op' = NoRun("append", "notrun")
    /\ UNCHANGED <<located, log, sublog, stateFile, calls, aborts, consumed, raceVars, trackerVars, fileVars, hookVars, cfgVars>>

\* One whole run of main: load_state, find_latest_transcript over the
\* directory, the sub-execution log of <stem>/subagents, process_transcript
\* on the file found with the entry of the session id of its first line.
SessPass(order) ==
    \E result \in {FindLatest(dir, order)}, state \in {LoadEntries(stateFile)} :
    LET sid == result.session_id
        listed == result.file = "s1" /\ find_subagent_transcripts(sublog)
        nothing == UNCHANGED <<dir, log, sublog, stateFile, calls, aborts, consumed, raceVars, trackerVars, fileVars, hookVars, cfgVars>>
    IN /\ located' = result
       /\ IF load_state_raises(stateFile) \/ result.ret = "raise"
          THEN op' = NoRun("pass", "died") /\ nothing
          ELSE IF result.ret = "none"
          THEN op' = NoRun("pass", "notrun") /\ nothing
          ELSE \E sub \in {process_subagent_transcript(sublog, state[sid], FALSE)} :
            IF listed /\ sub.ret = "raise"
            THEN op' = NoRun("pass", "died") /\ nothing
            ELSE LET subagent_data ==
                       IF listed THEN [has |-> TRUE, tools |-> sub.tools]
                       ELSE NoSubagents
                     st1 == IF listed THEN sub.st ELSE state[sid]
                 IN \E r \in {ProcessTranscript(dir.files[result.file].lines, st1, 0, subagent_data, FALSE)} :
                      /\ calls' = calls \o r.out
                      /\ stateFile' = IF r.saved
                                      THEN save_state(StoreEntry(state, sid, r.st, result.file))
                                      ELSE IF listed /\ sub.saved
                                           THEN save_state(StoreEntry(state, sid, sub.st, result.file))
                                           ELSE stateFile
                      /\ op' = OpOf("pass", r, subagent_data.tools)
                      /\ UNCHANGED <<dir, log, sublog, aborts, consumed, raceVars, trackerVars, fileVars, hookVars, cfgVars>>

SessNext ==
    \/ MkRoot
    \/ \E n \in FileNames, t \in 1..MaxMtime : SessAppend(n, t)
    \/ \E l \in {SubUse, SubResult} : SubAppend(l)
    \/ \E order \in Orders : SessPass(order)

SpecSessions == Init /\ [][SessNext]_vars

\* ------------------------------------------------ loading the configuration
\* A configuration file is written, replaced or removed. config holds what
\* load_config returned on the files as they are: a hook process loads the
\* configuration once and exits.
WriteConfig(src, content) ==
    /\ cfgFiles[src] # content
    /\ cfgFiles' = [cfgFiles EXCEPT ![src] = content]
    /\ config' = NotLoaded
    /\ UNCHANGED <<syncVars, raceVars, trackerVars, fileVars, dirVars, hookVars>>

\* A hook process calls load_config(project_dir).
LoadConfig ==
    /\ config' = load_config(cfgFiles)
    /\ UNCHANGED <<cfgFiles, syncVars, raceVars, trackerVars, fileVars, dirVars, hookVars>>

ConfigNext ==
    \/ \E src \in CfgSources : \E content \in CfgContents(src) : WriteConfig(src, content)
    \/ LoadConfig

SpecConfig == Init /\ [][ConfigNext]_vars

\* ------------------------------------------------------ racing invocations
\* Two runs of main on the same log and state file, one step at a time.
\* pc: "start" -> "loaded" -> ("open" -> "write" ->) "done", or "killed".
RaceLines == {UserLine, AsstTool1, AsstText2}

RaceInit ==
    /\ SyncInit
    /\ pc = [p \in Procs |-> "start"]
    /\ mem = [p \in Procs |-> EmptyState]
    /\ TrackerInit
    /\ FileInit
    /\ DirInit
    /\ HookInit
    /\ CfgInit

RaceAppend(l) ==
    /\ Len(log) < MaxLog
    /\ log' = Append(log, l)
    /\ UNCHANGED <<sublog, stateFile, calls, op, aborts, consumed, pc, mem, trackerVars, fileVars, dirVars, cfgVars, hookVars>>

\* main line 635: state = load_state(state_file)
RaceLoad(p) ==
    /\ pc[p] = "start"
    /\ mem' = [mem EXCEPT ![p] = load_state(stateFile)]
    /\ pc' = [pc EXCEPT ![p] = IF load_state_raises(stateFile)
                               THEN "killed" ELSE "loaded"]
    /\ UNCHANGED <<log, sublog, stateFile, calls, op, aborts, consumed, trackerVars, fileVars, dirVars, cfgVars, hookVars>>

\* main lines 638-667 and process_transcript up to the assignment of
\* state[session_id] (line 475): the log is read as it is now, the turns are
\* pushed, the in-memory dict is updated.
RaceProcess(p) ==
    /\ pc[p] = "loaded"
    /\ LET r == ProcessTranscript(log, mem[p], 0, NoSubagents, FALSE)
           run == find_latest_transcript(log) = "found"
       IN /\ calls' = IF run THEN calls \o r.out ELSE calls
          /\ mem' = [mem EXCEPT ![p] = IF run /\ r.saved THEN r.st ELSE @]
          /\ pc' = [pc EXCEPT ![p] = IF run /\ r.saved THEN "open" ELSE "done"]
    /\ UNCHANGED <<log, sublog, stateFile, op, aborts, consumed, trackerVars, fileVars, dirVars, cfgVars, hookVars>>

\* save_state, Path.write_text: open(state_file, "w") truncates the file
RaceOpen(p) ==
    /\ pc[p] = "open"
    /\ stateFile' = PartialFile
    /\ pc' = [pc EXCEPT ![p] = "write"]
    /\ UNCHANGED <<log, sublog, calls, op, aborts, consumed, mem, trackerVars, fileVars, dirVars, cfgVars, hookVars>>

\* save_state, Path.write_text: the document is written and the file closed
RaceWrite(p) ==
    /\ pc[p] = "write"
    /\ stateFile' = save_state(mem[p])
    /\ pc' = [pc EXCEPT ![p] = "done"]
    /\ UNCHANGED <<log, sublog, calls, op, aborts, consumed, mem, trackerVars, fileVars, dirVars, cfgVars, hookVars>>

\* The process is killed between the truncation and the write.
RaceKill(p) ==
    /\ pc[p] = "write"
    /\ pc' = [pc EXCEPT ![p] = "killed"]
    /\ UNCHANGED <<log, sublog, stateFile, calls, op, aborts, consumed, mem, trackerVars, fileVars, dirVars, cfgVars, hookVars>>

RaceNext ==
    \/ \E l \in RaceLines : RaceAppend(l)
    \/ \E p \in Procs : RaceLoad(p)
    \/ \E p \in Procs : RaceProcess(p)
    \/ \E p \in Procs : RaceOpen(p)
    \/ \E p \in Procs : RaceWrite(p)
    \/ \E p \in Procs : RaceKill(p)

SpecRace == RaceInit /\ [][RaceNext]_vars

\* Both invocations ran to their end.
RaceDone == \A p \in Procs : pc[p] = "done"

MaxOf(a, b) == IF a >= b THEN a ELSE b

\* C6 (as claimed): racing invocations lose no update. After both have
\* finished, the persisted last_line is the largest line count either of them
\* read, no turn of the log was emitted twice, and no turn number was given to
\* two different turns.
C6_NoLostUpdate ==
    RaceDone =>
        /\ PersistedLastLine = MaxOf(GetLastLine(mem[1]), GetLastLine(mem[2]))
        /\ \A i \in 1..Len(log) : Cardinality(TurnsOf(i)) <= 1
        /\ \A i, j \in 1..Len(calls) :
              calls[i].num = calls[j].num => calls[i].uidx = calls[j].uidx

\* C7 (as claimed): the state file holds a complete document at every
\* instant: the previous one or the new one, never a partial one.
C7_StateFileNeverPartial == stateFile.kind # "partial"

\* ------------------------------------------- unified tracker: behaviours
Traces == {"none", "nospan", "ok"}

LastOf(ev, h, trk, o) ==
    [ev |-> ev, id |-> h.tool_use_id, sid |-> h.session_id,
     pending |-> Pending(trk), stdout |-> o.stdout, exit |-> o.exit]

\* The outcome r of a handler run on the instance trk becomes the state; o is
\* what the process printed and its exit status.
Handled(ev, h, trk, r, keep, o) ==
    /\ now < MaxEvents
    /\ now' = now + 1
    /\ spans' = r.spans
    /\ tracker' = IF keep THEN r.tracker ELSE FreshTracker
    /\ last' = LastOf(ev, h, trk, o)
    /\ UNCHANGED <<syncVars, raceVars, fileVars, dirVars, cfgVars, hookVars>>

\* One instance handles the events one after the other.
TrkPreToolUse(h, trace, raise) ==
    Handled("PreToolUse", h, tracker,
            handle_pre_tool_use(tracker, spans, h, trace, raise, now + 1),
            TRUE, NoOutcome)

TrkPostToolUse(h, raise) ==
    Handled("PostToolUse", h, tracker,
            handle_tool_use(tracker, spans, h, raise, now + 1), TRUE,
            NoOutcome)

TrkStop(h, failing) ==
    Handled("Stop", h, tracker,
            handle_stop(tracker, spans, h, failing, now + 1), TRUE, NoOutcome)

TrackerNext ==
    \/ \E h \in ToolHooks, trace \in Traces, raise \in BOOLEAN :
          TrkPreToolUse(h, trace, raise)
    \/ \E h \in PostHooks, raise \in BOOLEAN : TrkPostToolUse(h, raise)
    \/ \E h \in StopHooks, failing \in SUBSET ToolIds : TrkStop(h, failing)

SpecTracker == Init /\ [][TrackerNext]_vars

\* main of the unified tracker, lines 774-844. The path a run takes:
\*   "disabled"   observability is not enabled in the configuration: the
\*                default object is printed (lines 806-808)
\*   "routed"     the event name is one of the eight known ones and its
\*                handler returned: its result is printed (line 835)
\*   "unrouted"   any other event name, also that of the empty input which
\*                empty or unparseable stdin becomes (lines 778-782, 832-833)
\*   "exception"  an exception was raised inside the try (the input is JSON
\*                but no object, a handler raised, the result cannot be
\*                serialised): the error object is printed (lines 838-844)
\* Every path ends in sys.exit(0), which except Exception does not catch.
MainPaths == {"disabled", "routed", "unrouted", "exception"}

MainOutcome_Uncaught(path) ==
    IF path = "exception" THEN [stdout |-> <<>>, exit |-> 1]
    ELSE [stdout |-> <<"object">>, exit |-> 0]
MainOutcome(path) ==
    [stdout |-> <<IF path = "routed" THEN "result"
                  ELSE IF path = "exception" THEN "error"
                  ELSE "default">>,
     exit |-> 0]

\* Observability enabled: every event gets a process of its own, which builds
\* a new ObservabilityTracker (line 811), routes the event to its handler and
\* exits; the instance dies with it.
MainPreToolUse(h, trace, raise) ==
    Handled("PreToolUse", h, FreshTracker,
            handle_pre_tool_use(FreshTracker, spans, h, trace, raise, now + 1),
            FALSE, MainOutcome("routed"))

MainPostToolUse(h, raise) ==
    Handled("PostToolUse", h, FreshTracker,
            handle_tool_use(FreshTracker, spans, h, raise, now + 1), FALSE,
            MainOutcome("routed"))

MainStop(h, failing) ==
    Handled("Stop", h, FreshTracker,
            handle_stop(FreshTracker, spans, h, failing, now + 1), FALSE,
            MainOutcome("routed"))

\* The hook input of a run that reaches no tool handler.
NoHook ==
    [session_id |-> FALSE, tool_use_id |-> NoId, tool_name |-> "Edit",
     payload |-> NoPayload]
Unchanged == [tracker |-> FreshTracker, spans |-> spans]

\* The known events whose handlers open and close no tool span.
OtherEvents ==
    {"SessionStart", "UserPromptSubmit", "SubagentStart", "SubagentStop",
     "SessionEnd"}

\* Observability disabled: whatever the event, no tracker is built.
MainDisabled(ev) ==
    Handled(ev, NoHook, FreshTracker, Unchanged, FALSE,
            MainOutcome("disabled"))

\* Empty stdin, stdin that is no JSON, or an event name main does not know.
UnroutedInputs == {"empty", "garbage", "unknown"}
MainUnrouted(input) ==
    Handled(input, NoHook, FreshTracker, Unchanged, FALSE,
            MainOutcome("unrouted"))

\* One of the other known events: its handler returns a result or raises.
MainOtherEvent(ev, raises) ==
    Handled(ev, NoHook, FreshTracker, Unchanged, FALSE,
            MainOutcome(IF raises THEN "exception" ELSE "routed"))

\* An exception before any span is touched: stdin is JSON but no object
\* (hook_input.get raises at line 814), or a tool event whose tool_use_id or
\* tool_name is not hashable (lines 258, 320).
FailingInputs == {"nonobj", "PreToolUse", "PostToolUse"}
MainFailing(input) ==
    Handled(input, NoHook, FreshTracker, Unchanged, FALSE,
            MainOutcome("exception"))

HooksNext ==
    \/ \E h \in ToolHooks, trace \in Traces, raise \in BOOLEAN :
          MainPreToolUse(h, trace, raise)
    \/ \E h \in PostHooks, raise \in BOOLEAN : MainPostToolUse(h, raise)
    \/ \E h \in StopHooks, failing \in SUBSET ToolIds : MainStop(h, failing)
    \/ \E ev \in OtherEvents \cup {"PreToolUse", "Stop"} : MainDisabled(ev)
    \/ \E input \in UnroutedInputs : MainUnrouted(input)
    \/ \E ev \in OtherEvents, raises \in BOOLEAN : MainOtherEvent(ev, raises)
    \/ \E input \in FailingInputs : MainFailing(input)

SpecHooks == Init /\ [][HooksNext]_vars

\* The lines of the log after the first n that are valid JSON (file index,
\* counted from 1).
ValidFrom(n) == {i \in (n + 1)..Len(log) : log[i].k # "bad"}

\* C20: incremental read. A pass that starts with the stored offset N parses
\* exactly the lines after the first N that are valid JSON, each once and
\* in file order; when N is not below the number of lines the pass parses
\* nothing and returns with no error and no turn.
C20_IncrementalRead ==
    (op.act = "pass" /\ op.ret \in {"return", "raise"}
                     /\ op.why # "vanished") =>
        /\ \A j \in 1..(Len(op.parsed) - 1) : op.parsed[j] < op.parsed[j + 1]
        /\ op.from < op.total =>
              {op.parsed[j] : j \in 1..Len(op.parsed)} = ValidFrom(op.from)
        /\ op.from >= op.total =>
              op.parsed = <<>> /\ op.ret = "return" /\ op.turns = 0

\* C20 witness: a pass that started after lines an earlier pass had read,
\* skipped an invalid line and parsed a line after it.
C20_Witness ==
    /\ op.act = "pass" /\ op.ret = "return" /\ op.from > 0
    /\ \E i \in (op.from + 1)..Len(log) :
          /\ log[i].k = "bad"
          /\ \E j \in 1..Len(op.parsed) : op.parsed[j] > i
    /\ \A j \in 1..Len(op.parsed) : op.parsed[j] > op.from

\* ------------------------------ observability-tracker.py: behaviours
\* Every hook event is handled by a run of main of observability-tracker.py
\* with observability enabled in the configuration.
\* What a run of main prints to standard output, given the event and the
\* session_data d that _load_session left: initialize_session prints its
\* message (lines 59-63; track_user_prompt calls it for a missing session,
\* line 117), finalize_session prints the summary of a loaded session
\* (lines 166-171), track_tool_usage prints nothing.
Printed(act, d) ==
    CASE act = "SessionStart" -> <<"initialized">>
      [] act = "UserPromptSubmit" -> IF d.start THEN <<>> ELSE <<"initialized">>
      [] act = "Stop" -> IF d.start THEN <<"complete">> ELSE <<>>
      [] OTHER -> <<>>

FileRun(act, d, outcome) ==
    [act |-> act, had |-> d.start, data |-> d, outcome |-> outcome,
     before |-> Len(archive), printed |-> Printed(act, d)]

\* SessionStart: initialize_session writes a new record
FtSessionStart ==
    /\ sessionFile' = SessionDoc(NewSession)
    /\ fop' = FileRun("SessionStart", load_session(sessionFile), "none")
    /\ UNCHANGED <<archive, syncVars, raceVars, trackerVars, dirVars, cfgVars, hookVars>>

\* PostToolUse: track_tool_usage; without a session the event is skipped
FtPostToolUse(tool_name, file_path) ==
    LET d == load_session(sessionFile)
    IN /\ d.tools < MaxTools
       /\ sessionFile' = IF d.start
                         THEN SessionDoc(track_tool_usage(d, tool_name, file_path))
                         ELSE sessionFile
       /\ fop' = FileRun("PostToolUse", d, "none")
       /\ UNCHANGED <<archive, syncVars, raceVars, trackerVars, dirVars, cfgVars, hookVars>>

\* UserPromptSubmit: track_user_prompt initializes a missing session
FtUserPrompt ==
    LET d == load_session(sessionFile)
        base == IF d.start THEN d ELSE NewSession
    IN /\ d.prompts < MaxTools
       /\ sessionFile' = SessionDoc([base EXCEPT !.prompts = @ + 1])
       /\ fop' = FileRun("UserPromptSubmit", d, "none")
       /\ UNCHANGED <<archive, syncVars, raceVars, trackerVars, dirVars, cfgVars, hookVars>>

\* Stop: finalize_session
FtStop(outcome) ==
    LET r == finalize_session(sessionFile, outcome)
    IN /\ Len(archive) < MaxSessions
       /\ sessionFile' = r.file
       /\ archive' = archive \o r.archived
       /\ fop' = FileRun("Stop", load_session(sessionFile), outcome)
       /\ UNCHANGED <<syncVars, raceVars, trackerVars, dirVars, cfgVars, hookVars>>

FileNext ==
    \/ FtSessionStart
    \/ FtPostToolUse("Edit", "a.py")
    \/ FtUserPrompt
    \/ \E outcome \in BackendOutcomes : FtStop(outcome)

SpecFile == Init /\ [][FileNext]_vars

\* The same runs with every PostToolUse input, up to the archiving of
\* MaxArchived sessions.
MaxArchived == 1
RecordNext ==
    \/ FtSessionStart
    \/ \E input \in ToolInputs : FtPostToolUse(input[1], input[2])
    \/ FtUserPrompt
    \/ \E outcome \in BackendOutcomes :
          Len(archive) < MaxArchived /\ FtStop(outcome)

SpecRecord == Init /\ [][RecordNext]_vars

\* ------------------------- observability-tracker.py: concurrent hooks
\* Two PostToolUse hook processes on one project, observability enabled, the
\* session initialized by an earlier SessionStart hook. Each process handles
\* up to MaxRuns events, one after the other.
MaxRuns == 2

HookRaceInit ==
    /\ SyncInit
    /\ pc = [p \in Procs |-> "off"]
    /\ mem = [p \in Procs |-> EmptyState]
    /\ TrackerInit
    /\ sessionFile = SessionDoc(NewSession)
    /\ archive = <<>>
    /\ fop = NoFileRun
    /\ DirInit
    /\ HookInit
    /\ CfgInit

\* track_tool_usage line 71: _load_session. A file that cannot be parsed
\* leaves session_data empty; the event is then skipped (lines 73-75).
HookLoad(p) ==
    LET d == load_session(sessionFile)
    IN /\ fpc[p] = "idle" /\ fmem[p].runs < MaxRuns
       /\ fmem' = [fmem EXCEPT ![p] =
                      [data |-> d,
                       runs |-> IF d.start THEN @.runs ELSE @.runs + 1]]
       /\ fpc' = [fpc EXCEPT ![p] = IF d.start THEN "loaded" ELSE "idle"]
       /\ UNCHANGED <<fileVars, syncVars, raceVars, trackerVars, dirVars, cfgVars>>

\* lines 77-102: the record is appended to the loaded data; line 105,
\* _save_session: Path.write_text opens the file, which truncates it
HookOpen(p) ==
    /\ fpc[p] = "loaded"
    /\ fmem' = [fmem EXCEPT ![p].data = track_tool_usage(@, "Bash", "")]
    /\ sessionFile' = PartialSession
    /\ fpc' = [fpc EXCEPT ![p] = "write"]
    /\ UNCHANGED <<archive, fop, syncVars, raceVars, trackerVars, dirVars, cfgVars>>

\* Path.write_text writes the document and closes the file
HookWrite(p) ==
    /\ fpc[p] = "write"
    /\ sessionFile' = SessionDoc(fmem[p].data)
    /\ fmem' = [fmem EXCEPT ![p].runs = @ + 1]
    /\ fpc' = [fpc EXCEPT ![p] = "idle"]
    /\ UNCHANGED <<archive, fop, syncVars, raceVars, trackerVars, dirVars, cfgVars>>

HookRaceNext ==
    \/ \E p \in HookProcs : HookLoad(p)
    \/ \E p \in HookProcs : HookOpen(p)
    \/ \E p \in HookProcs : HookWrite(p)

SpecHookRace == HookRaceInit /\ [][HookRaceNext]_vars

\* The PostToolUse events handled to the end so far.
HandledRuns == fmem[1].runs + fmem[2].runs

\* C29: concurrent PostToolUse hooks. When every track_tool_usage invocation
\* on the initialized session has finished, the session file is a complete
\* document and total_tool_calls is the number of invocations, also when
\* they overlapped.
C29_ConcurrentHooksKeepAll ==
    (\A p \in HookProcs : fpc[p] = "idle") =>
        /\ sessionFile.kind = "doc"
        /\ sessionFile.data.tools = HandledRuns

\* C17: local archival fallback. After finalize_session ran on an
\* initialized session, whatever the outcome of the backend step, the
\* finalized record of that session is the newest file of the archive and
\* current-session.json is removed.
C17_ArchivedOnEveryOutcome ==
    (fop.act = "Stop" /\ fop.had) =>
        /\ Len(archive) = fop.before + 1
        /\ archive[Len(archive)] =
              [fop.data EXCEPT !.ended = TRUE,
                               !.err = (fop.outcome = "raises")]
        /\ sessionFile.kind = "absent"

\* C17 witness: a session with tool calls was finalized while the push to
\* the backend raised, after an earlier session had been archived.
C17_Witness ==
    /\ fop.act = "Stop" /\ fop.had /\ fop.outcome = "raises"
    /\ fop.data.tools > 0
    /\ Len(archive) = 2 /\ archive[2].err /\ ~archive[1].err

\* C19: a pass that aborts leaves the persisted state untouched. When a run
\* of main ends with the pass aborted (the primary log vanished, the backend
\* failed, an exception left main), the state file is what it was before
\* the run, the cursor of the sub-execution included.
C19_AbortLeavesState ==
    [][(op'.act = "pass" /\ op'.ret \in {"raise", "died"})
       => stateFile' = stateFile]_vars

\* The log of the scenario: a user text, an assistant message with the tool
\* invocation t1 (Edit), the user-role result for t1, the assistant text
\* "done".
Scenario == <<UserLine, AsstTool1, ResultLine, AsstText2>>

\* C22: a pass from line 0 over the log of the scenario emits exactly one
\* turn: its input is the user text, it has exactly one tool span, for t1,
\* whose output is the result for t1, and its output text is "done".
C22_ScenarioOneTurn ==
    (op.act = "pass" /\ op.ret = "return" /\ op.from = 0 /\ log = Scenario)
    => /\ op.turns = 1
       /\ Len(calls) >= 1
       /\ LET c == calls[Len(calls)]
          IN /\ c.uidx = 1 /\ c.input = <<"q">> /\ c.ok
             /\ Len(c.spans) = 1
             /\ c.spans[1].id = "t1"
             /\ c.spans[1].output = ResultContent("t1")
             /\ c.output = <<"done">>

\* C22 witness: the pass of the scenario ran and emitted.
C22_Witness ==
    /\ op.act = "pass" /\ op.ret = "return" /\ op.from = 0
    /\ log = Scenario /\ op.turns = 1 /\ op.total = 4

\* A user-role line that is no tool result: the user text that opens a turn.
HoldsResult(l) == \E i \in 1..Len(l.c) : l.c[i].t = "tool_result"
IsUserText(l) == l.k \in {"user", "result"} /\ ~HoldsResult(l)

\* The lines of the turn whose user text is line u: those after u, up to the
\* next user text or the end of the log.
TurnLines(u) ==
    {i \in (u + 1)..Len(log) :
        \A j \in (u + 1)..i : ~IsUserText(log[j])}

\* The assistant fragments among the lines of I, in file order.
RECURSIVE FragmentsIn(_, _)
FragmentsIn(I, i) ==
    IF i > Len(log) THEN <<>>
    ELSE IF i \in I /\ log[i].k = "asst"
    THEN <<log[i]>> \o FragmentsIn(I, i + 1)
    ELSE FragmentsIn(I, i + 1)

\* C23: fragment merging. In a pass from line 0 that returns, the responses
\* of every emitted turn hold, in arrival order, the content of every
\* assistant fragment between the turn's user text and the next user text,
\* a fragment without identifier included (also as the first fragment of the
\* turn); fragments that all carry one identifier, or none, are one response.
C23_FragmentsMerged ==
    (op.act = "pass" /\ op.ret = "return" /\ op.from = 0) =>
        \A k \in LastEmitted :
            LET frags == FragmentsIn(TurnLines(calls[k].uidx), 1)
                ids == {frags[i].mid : i \in 1..Len(frags)} \ {0}
            IN /\ Flatten(calls[k].assts) =
                    Flatten([i \in 1..Len(frags) |-> frags[i].c])
               /\ Cardinality(ids) <= 1 => Len(calls[k].assts) = 1

\* The ids of the tool spans of an emitted turn.
SpanIds(c) == {c.spans[j].id : j \in 1..Len(c.spans)}

\* C24: tool events do not end a turn. In a pass from line 0 that returns,
\* every emitted turn was opened by a user-role line without tool_result
\* block and no line opened two turns; a user-role line with a tool_result
\* block that lies between that line and the next user text neither ended
\* the turn (the tool invocations of the identified fragments after it are
\* spans of the same turn) nor was dropped (the span of the invocation it
\* answers carries its content).
C24_ToolResultKeepsTurnOpen ==
    (op.act = "pass" /\ op.ret = "return" /\ op.from = 0) =>
        \A k \in LastEmitted :
            LET u == calls[k].uidx
            IN /\ IsUserText(log[u])
               /\ \A k2 \in LastEmitted : k2 # k => calls[k2].uidx # u
               /\ \A i \in TurnLines(u) :
                     /\ (log[i].k = "asst" /\ log[i].mid # 0) =>
                           \A b \in 1..Len(log[i].c) :
                               log[i].c[b].t = "tool_use" =>
                                   log[i].c[b].x \in SpanIds(calls[k])
                     /\ (log[i].k \in {"user", "result"}) =>
                           \A b \in 1..Len(log[i].c) :
                             \A j \in 1..Len(calls[k].spans) :
                               (log[i].c[b].t = "tool_result"
                                  /\ log[i].c[b].x = calls[k].spans[j].id)
                               => calls[k].spans[j].output =
                                     ResultContent(log[i].c[b].x)

\* C24 witness: an emitted turn that holds a tool result between two
\* identified assistant fragments, the second with another identifier.
C24_Witness ==
    /\ op.act = "pass" /\ op.ret = "return" /\ op.from = 0
    /\ \E k \in LastEmitted :
          \E i, i2 \in TurnLines(calls[k].uidx) :
             /\ i < i2 /\ HoldsResult(log[i])
             /\ log[i2].k = "asst" /\ log[i2].mid # 0
             /\ \E i0 \in TurnLines(calls[k].uidx) :
                   i0 < i /\ log[i0].k = "asst" /\ log[i0].mid # 0
                          /\ log[i0].mid # log[i2].mid
             /\ Len(calls[k].assts) = 2

\* The user texts the last pass read that are followed, before the next user
\* text, by an assistant fragment with an identifier: the turns that have a
\* merged response.
Answered ==
    {u \in (op.from + 1)..Len(log) :
        /\ IsUserText(log[u])
        /\ \E i \in TurnLines(u) : log[i].k = "asst" /\ log[i].mid # 0}

IsUnknown(l) == l.k \in {"other", "nonobj"}
Known(f) == SelectSeq(f, LAMBDA l : ~IsUnknown(l))

\* What a turn holds, without its position in the file.
Content(c) == [c EXCEPT !.uidx = 0]

\* C26: unknown events are dropped without halting. A pass from line 0 whose
\* backend calls succeed returns normally and emits the turns, with the
\* spans, that a pass over the same log without its unknown lines emits.
C26_UnknownLinesDropped ==
    (op.act = "pass" /\ op.from = 0 /\ op.ret \in {"return", "raise"}
                     /\ op.why \notin {"emitfail", "vanished"}) =>
        /\ op.ret = "return"
        /\ LET this == SubSeq(calls, Len(calls) - op.turns + 1, Len(calls))
               clean == OnePass(Known(log))
           IN /\ Len(this) = Len(clean)
              /\ \A k \in 1..Len(this) : Content(this[k]) = Content(clean[k])

\* The tool ids that a tool result among the lines of I declares as the
\* spawn site of the sub-execution.
DeclaredIn(I) ==
    {log[i].c[b].x :
        <<i, b>> \in {x \in I \X (1..1) :
                         /\ log[x[1]].agent # NoAgent
                         /\ x[2] <= Len(log[x[1]].c)
                         /\ log[x[1]].c[x[2]].t = "tool_result"}}

\* C27: ordering between the logs in one invocation. The sub-execution log
\* is processed before any turn of the primary log is emitted: in every turn
\* a run of main emits, the span of the tool call that a tool result of the
\* turn declares as spawn site carries the nested container, and what is
\* nested is all that process_subagent_transcript collected in that run.
C27_SubLogsBeforeTurns ==
    (op.act = "pass" /\ sublog.exists) =>
        \A k \in LastEmitted : \A j \in 1..Len(calls[k].spans) :
            /\ calls[k].spans[j].id \in DeclaredIn(TurnLines(calls[k].uidx))
                  => calls[k].spans[j].nested.has
            /\ calls[k].spans[j].nested.has
                  => calls[k].spans[j].nested.tools = op.subtools

\* C27 witness: a run collected tool calls from the sub-execution log and
\* emitted a turn that nests them.
C27_Witness ==
    /\ op.act = "pass" /\ op.ret = "return" /\ op.subtools # <<>>
    /\ \E k \in LastEmitted : \E j \in 1..Len(calls[k].spans) :
          /\ calls[k].spans[j].nested.has
          /\ calls[k].spans[j].nested.tools = op.subtools

\* The lines the last pass had read when it emitted the turn of user text u.
ReadUpTo(u) ==
    {i \in (op.from + 1)..Len(log) : \A j \in (u + 1)..i : ~IsUserText(log[j])}

\* C28: parent selection for nesting. In every turn a run of main emits, the
\* tool calls of the sub-execution are nested under a span exactly when the
\* span's id is the tool_use_id of a tool result, read by then, that declares
\* the sub-execution's agent id; no other span carries them.
C28_NestedUnderSpawnSite ==
    op.act = "pass" =>
        \A k \in LastEmitted : \A j \in 1..Len(calls[k].spans) :
            calls[k].spans[j].nested.has <=>
                /\ sublog.exists
                /\ calls[k].spans[j].id \in DeclaredIn(ReadUpTo(calls[k].uidx))

\* C28 witness: an emitted turn with two tool spans, the spawn site, which
\* carries the sub-execution's tool calls, and another one, which does not.
C28_Witness ==
    /\ op.act = "pass" /\ op.ret = "return" /\ op.subtools # <<>>
    /\ \E k \in LastEmitted : \E j, j2 \in 1..Len(calls[k].spans) :
          /\ calls[k].spans[j].nested.has
          /\ calls[k].spans[j].nested.tools # <<>>
          /\ calls[k].spans[j].id = "t2"
          /\ ~calls[k].spans[j2].nested.has
          /\ calls[k].spans[j2].id = "t1"

\* The primary session logs the projects directory holds.
Candidates == {n \in SessionLogs : dir.files[n].present}

\* C21: log location. find_latest_transcript returns a primary session log
\* (no sub-execution log) whose modification time is the greatest among the
\* candidates, with the session identifier of that log; when the root is
\* absent or holds no log it returns not-found and main exits 0 having
\* emitted nothing and written no state.
C21_LatestPrimaryLog ==
    op.act = "locate" =>
        IF ~dir.root \/ Candidates = {}
        THEN /\ located.ret = "none" /\ op.exit = 0
             /\ calls = <<>> /\ stateFile = AbsentFile
        ELSE /\ located.ret = "found"
             /\ located.file \in Candidates
             /\ \A n \in Candidates :
                   dir.files[n].mtime <= dir.files[located.file].mtime
             /\ located.session_id = located.file

\* C18: corrupt state is treated as no prior state. A run of main that finds
\* a session log and a state file that cannot be parsed starts the pass at
\* line 0, completes it without an error, exits 0 and leaves a well-formed
\* state file whose cursor is the number of lines of the log.
C18_CorruptStateRestart ==
    [][(/\ stateFile.kind \in {"partial", "undecodable"}
        /\ op'.act = "pass" /\ op'.ret # "notrun")
       => (/\ op'.ret = "return" /\ op'.from = 0 /\ op'.exit = 0
           /\ stateFile'.kind = "doc" /\ stateFile'.doc.has
           /\ stateFile'.doc.last_line = Len(log))]_vars

\* ------------------------------------------- properties of the tracker
\* The newest span the backend holds for a tool_use_id (0: none).
LatestSpan(id) ==
    LET ks == {k \in 1..Len(spans) : spans[k].id = id}
    IN IF ks = {} THEN 0 ELSE CHOOSE k \in ks : \A j \in ks : j <= k

\* C8 (as claimed): pre/post correlation across invocations. After a
\* PostToolUse event with a session id and a tool_use_id was handled, the span
\* opened for that tool_use_id by an earlier PreToolUse is closed.
C8_PostClosesSpanAcrossProcesses ==
    (last.ev = "PostToolUse" /\ last.sid /\ last.id # NoId
        /\ LatestSpan(last.id) # 0)
      => spans[LatestSpan(last.id)].end # Null

\* The result payload of a hook input: the first non-empty value among
\* tool_response, tool_result, result, output. It signals an error when it is
\* a mapping with a non-empty error entry.
ResultPayload(p) ==
    LET ks == {i \in 1..4 : p[i] \notin {"None", "EmptyDict"}}
    IN IF ks = {} THEN "EmptyDict"
       ELSE p[CHOOSE i \in ks : \A j \in ks : i <= j]
SignalsError(p) == ResultPayload(p) = "ErrDict"

\* C30: result payload aliasing in handle_tool_use. The span a PostToolUse
\* closes receives as output the first non-empty value among tool_response,
\* tool_result, result, output, in that order; when none is present (or all
\* are empty) the payload is empty: the span gets no output and is closed as
\* a success.
C30_PayloadAliasing ==
    \A k \in 1..Len(spans) :
        spans[k].by = "post" =>
            LET r == ResultPayload(spans[k].hook)
            IN /\ spans[k].output = IF r = "EmptyDict" THEN "None" ELSE r
               /\ r = "EmptyDict" =>
                     (spans[k].success = "true" /\ spans[k].level = "DEFAULT")

\* C30 witness: one span closed with the payload under the third key while
\* the fourth holds another value, one closed by an event with no payload.
C30_Witness ==
    \E k, k2 \in 1..Len(spans) :
        /\ spans[k].by = "post"
        /\ spans[k].hook = <<"None", "None", "OkDict", "ErrDict">>
        /\ spans[k].output = "OkDict"
        /\ spans[k2].by = "post"
        /\ spans[k2].hook = NoPayload
        /\ spans[k2].output = "None" /\ spans[k2].success = "true"

\* C9: span correlation in handle_tool_use. Every span closed by a
\* PostToolUse was pending for that event's tool_use_id, has start <= end,
\* and is marked as error (level ERROR, success false) exactly when the result
\* payload signals an error; otherwise it is marked successful.
C9_SpanCorrelation ==
    \A k \in 1..Len(spans) :
        spans[k].by = "post" =>
            /\ spans[k].start <= spans[k].end
            /\ SignalsError(spans[k].hook)
                  => (spans[k].level = "ERROR" /\ spans[k].success = "false")
            /\ ~SignalsError(spans[k].hook)
                  => (spans[k].level = "DEFAULT" /\ spans[k].success = "true")
            /\ spans[k].end = now
                  => (/\ last.ev = "PostToolUse"
                      /\ last.id = spans[k].id
                      /\ k \in last.pending)

\* C9 witness: one span closed as an error and one closed as a success, each
\* after its start.
C9_Witness ==
    \E k, j \in 1..Len(spans) :
        /\ spans[k].by = "post" /\ spans[k].level = "ERROR"
        /\ spans[k].start < spans[k].end
        /\ spans[j].by = "post" /\ spans[j].level = "DEFAULT"
        /\ spans[j].hook # NoPayload

\* C10 (as claimed): orphaned start. When handle_stop has returned, every span
\* that was pending at its entry is ended with the orphan status, and no span
\* remains pending.
C10_StopEndsPendingSpans ==
    last.ev = "Stop" =>
        /\ Pending(tracker) = {}
        /\ \A k \in last.pending :
              /\ spans[k].end # Null
              /\ spans[k].by = "stop"
              /\ spans[k].status = "orphan"

\* C16: output contract of the unified tracker. Every run of main, whatever
\* its input and whatever happened inside it, wrote exactly one JSON object
\* to standard output and exited with status 0.
C16_OneObjectExitZero ==
    last.ev # "none" => (Len(last.stdout) = 1 /\ last.exit = 0)

\* C16 witness: runs that printed the default object, a handler's result and
\* the error object of the except clause have all happened; the last one
\* printed the error object.
C16_Witness ==
    /\ last.stdout = <<"error">> /\ last.exit = 0
    /\ last.ev \in FailingInputs \cup OtherEvents
    /\ spans # <<>>

\* C11 (as claimed): orphaned completion. After a PostToolUse with a session
\* id and a tool_use_id for which no span was pending, the backend holds a
\* span for that tool_use_id with a null start time and the orphan marker.
C11_OrphanCompletionReported ==
    (/\ last.ev = "PostToolUse" /\ last.sid /\ last.id # NoId
     /\ \A k \in last.pending : spans[k].id # last.id)
      => \E k \in 1..Len(spans) :
            /\ spans[k].id = last.id
            /\ spans[k].start = Null
            /\ spans[k].status = "orphan"

\* ---------------------------------------------------------------- C31
\* The sources of load_config from the highest priority to the lowest, and
\* whether the file of a source defines the key path.
Priority == <<"project_yaml", "project_md", "global_yaml", "global_md">>
Defines(src, path) ==
    /\ cfgFiles[src].kind = "doc"
    /\ get_config_value(cfgFiles[src].doc, path) # NoValue
HighestDefining(path) ==
    LET defining == {i \in 1..Len(Priority) : Defines(Priority[i], path)}
    IN IF defining = {} THEN "default"
       ELSE Priority[CHOOSE i \in defining : \A j \in defining : i <= j]

\* C31: configuration priority. In the configuration load_config returns,
\* the value of every key path is the one written by the highest-priority
\* source that defines the path, in the order project YAML, project legacy
\* .md, global YAML, global legacy .md, built-in defaults.
C31_ConfigPriority ==
    config.ret = "return" =>
        \A path \in CfgPaths :
            get_config_value(config.cfg, path) = Atom(HighestDefining(path))

\* ---------------------------------------------------------------- C32
\* C32: cursor monotonicity. Over sequential passes on an append-only log
\* with a readable state file, no step lowers the persisted last_line or
\* turn_count of the session, and a step that writes the state file leaves a
\* last_line that is at most the number of lines the log has then.
C32_CursorMonotone ==
    [][/\ PersistedLastLine' >= PersistedLastLine
       /\ PersistedTurnCount' >= PersistedTurnCount
       /\ stateFile' # stateFile => PersistedLastLine' <= Len(log')]_vars

\* The cursor was advanced by a pass that started from a cursor an earlier
\* pass had persisted, and turns were counted.
C32_Witness ==
    /\ op.act = "pass" /\ op.ret = "return"
    /\ op.from > 0
    /\ PersistedLastLine > op.from
    /\ PersistedTurnCount >= 2

\* ---------------------------------------------------------------- C33
\* A log line that is a JSON object, and a run in which no push has failed.
WellFormed(i) == log[i].k \notin {"bad", "nonobj"}
NoPushFailed == \A k \in 1..Len(calls) : calls[k].ok
PassRan == op.act = "pass" /\ op.ret \in {"return", "raise"} /\ op.why # "vanished"

\* C33: exactly-once line consumption. As long as no backend push has
\* failed, no well-formed line of the log has been parsed by two sequential
\* passes, and once a pass has run on the log as it is, every well-formed
\* line has been parsed by exactly one pass.
C33_ExactlyOnce ==
    NoPushFailed =>
        \A i \in 1..Len(log) :
            WellFormed(i) => /\ consumed[i] <= 1
                             /\ PassRan => consumed[i] = 1

\* ---------------------------------------------------------------- C34
\* The state entry that a run of main which found a log applies to it.
AppliedEntry == LoadEntries(stateFile)[located'.session_id]
PassOverFoundLog == op'.act = "pass" /\ located'.ret = "found" /\ op'.ret # "died"

\* C34: cursor identity. Whenever a pass applies a stored cursor to the log
\* it found, that cursor was written by an earlier pass over the same file:
\* two distinct log files never share one cursor entry.
C34_CursorIdentity ==
    [][(PassOverFoundLog /\ AppliedEntry.has)
       => AppliedEntry.by = located'.file]_vars

\* ---------------------------------------------------------------- C35
\* C35: state frame. A run of main changes at most the state entry of the
\* session id it processed (the entry of that session's sub-execution is
\* held with it); the entry of every other session is carried over to the
\* state file as it was.
C35_StateFrame ==
    [][op'.act = "pass"
       => \A sid \in FileNames :
             (located'.ret # "found" \/ sid # located'.session_id)
             => LoadEntries(stateFile')[sid] = LoadEntries(stateFile)[sid]]_vars

\* A pass over the log of session s2 wrote the cursor of s2 and of nothing
\* else, while the state file held the entry that a pass over the log of s1
\* and its sub-execution log had written.
C35_Witness ==
    /\ op.act = "pass" /\ op.ret = "return" /\ op.parsed # <<>>
    /\ located.ret = "found" /\ located.session_id = "s2"
    /\ LoadEntries(stateFile)["s2"].has
    /\ LoadEntries(stateFile)["s2"].last_line = Len(dir.files["s2"].lines)
    /\ LoadEntries(stateFile)["s1"].has
    /\ LoadEntries(stateFile)["s1"].sub_has

\* ---------------------------------------------------------------- C36
\* The span that active_spans holds for the tool_use_id of the event just
\* handled, before the event (0: none).
HeldBefore == IF last'.id = NoId THEN 0 ELSE tracker.active_spans[last'.id]

\* C36: close at most once. Within one tracker instance no span is ended
\* twice; a span that a PostToolUse or Stop has ended is no longer in
\* active_spans; and a PostToolUse whose tool_use_id holds no span there ends
\* no span (the orphaned-completion path).
C36_CloseAtMostOnce ==
    [][/\ \A k \in 1..Len(spans') :
             /\ spans'[k].ends <= 1
             /\ spans'[k].ends = 1 => k \notin Pending(tracker')
       /\ (last'.ev = "PostToolUse" /\ HeldBefore = 0) => spans' = spans]_vars

\* A second PostToolUse for t1 arrived after the first one had ended the
\* span of t1: nothing was pending for it, and the span is ended once.
C36_Witness ==
    /\ last.ev = "PostToolUse" /\ last.sid /\ last.id = "t1"
    /\ \A k \in last.pending : spans[k].id # "t1"
    /\ \E k \in 1..Len(spans) :
          spans[k].id = "t1" /\ spans[k].by = "post" /\ spans[k].ends = 1

\* ---------------------------------------------------------------- C37
\* The sum of the per-name counts of tools_by_name.
RECURSIVE SumOver(_, _)
SumOver(f, names) ==
    IF names = {} THEN 0
    ELSE LET n == CHOOSE x \in names : TRUE IN f[n] + SumOver(f, names \ {n})

\* C37: metrics consistency. In the session metrics computed when a Stop is
\* handled, tool_successes + tool_errors is at most total_tools, the error
\* rate is at most 1, and total_tools is the sum of the counts of
\* tools_by_name.
C37_MetricsConsistent ==
    (last.ev = "Stop" /\ last.sid) =>
        LET m == compute_session_metrics(tracker)
        IN /\ m.tool_successes + m.tool_errors <= m.total_tools
           /\ m.error_rate[1] <= m.error_rate[2]
           /\ m.total_tools = SumOver(m.tools_by_name, DOMAIN m.tools_by_name)

\* ---------------------------------------------------------------- C38
NoDuplicate(list) == \A i, j \in 1..Len(list) : list[i] = list[j] => i = j

\* C38: session record invariant of the file-based tracker. After any
\* sequence of sequential SessionStart, UserPromptSubmit, PostToolUse and Stop
\* runs, whenever current-session.json exists its total_tool_calls is the
\* length of tools_used, and files_modified and files_created hold no path
\* twice.
C38_SessionRecordInvariant ==
    sessionFile.kind = "doc" =>
        /\ sessionFile.data.tools = sessionFile.data.used
        /\ NoDuplicate(sessionFile.data.modified)
        /\ NoDuplicate(sessionFile.data.created)

\* The record after two tool calls that named the same file, an Edit and a
\* Write, on a session that a prompt had started.
C38_Witness ==
    /\ fop.act = "PostToolUse" /\ fop.had
    /\ sessionFile.kind = "doc"
    /\ sessionFile.data.tools = 2 /\ sessionFile.data.used = 2
    /\ sessionFile.data.modified = <<"a.py">>
    /\ sessionFile.data.created = <<"a.py">>
    /\ sessionFile.data.prompts > 0


\* C39: lifecycle of the file tracker. A PostToolUse or Stop run that finds
\* no current-session.json leaves the file absent, adds nothing to the
\* archive and prints nothing; and current-session.json comes into
\* existence only by a SessionStart or UserPromptSubmit run, so a
\* PostToolUse run records a tool call only on a record one of them made.
C39_Lifecycle ==
    [][/\ (fop'.act \in {"PostToolUse", "Stop"} /\ sessionFile.kind = "absent") =>
            /\ sessionFile' = sessionFile
            /\ archive' = archive
            /\ fop'.printed = <<>>
       /\ (sessionFile.kind = "absent" /\ sessionFile'.kind = "doc") =>
            fop'.act \in {"SessionStart", "UserPromptSubmit"}
       /\ (fop'.act = "PostToolUse" /\ sessionFile' # sessionFile) =>
            /\ sessionFile.kind = "doc"
            /\ sessionFile.data.start]_vars

\* C39 witness: after a Stop archived and removed the record, a Stop found
\* no session file, and nothing was archived or printed.
C39_Witness ==
    /\ fop.act = "Stop" /\ ~fop.had
    /\ fop.before = 1 /\ Len(archive) = 1
    /\ sessionFile.kind = "absent"
    /\ fop.printed = <<>>
====
